---------------------------- MODULE Spec2Model ----------------------------
(***************************************************************************)
(* Model of stock_analysis_agent/agent.py: create_stock_analysis_agent,    *)
(* its provider registry and the credential environment it reads and       *)
(* writes; of the factories create_agent (templates/basic_agent) and       *)
(* create_research_assistant (agents/research_assistant); of the tools of  *)
(* the three tools modules; and of conduct_research.                       *)
(*                                                                         *)
(* A Python string is a sequence of atoms.  The atom ":" is the delimiter  *)
(* character; every other atom is a run of characters without ":".  None   *)
(* is a value outside the strings.  Python truthiness of Optional[str] is  *)
(* Truthy: neither None nor the empty string.                              *)
(***************************************************************************)
EXTENDS Integers, Sequences, FiniteSets, TLC

VARIABLES
    environ,              \* os.environ restricted to the credential keys
    fs,                   \* directories that exist
    installed,            \* history: credential keys written through api_key
    pc,                   \* position of each call
    args,                 \* arguments of each call, as passed
    provider,             \* local `provider` of each call
    model,                \* local `model` of each call
    provider_from_model,  \* local, bound by the split only
    model_name,           \* local, bound by the split only
    chat_model,           \* handle returned by init_chat_model
    agent,                \* value returned by the call
    raised,               \* exception leaving the call
    calls,                \* collaborator calls made by each call, in order
    result,               \* dict a tool invocation serialises and returns
    registry,             \* the module's SUPPORTED_PROVIDERS dict, as it is now
    held,                 \* the dict get_supported_providers gave each caller
    base_tools            \* the module lists TOOLS and RESEARCH_TOOLS, as they are now

vars == <<environ, fs, installed, pc, args, provider, model,
          provider_from_model, model_name, chat_model, agent, raised, calls,
          result, registry, held, base_tools>>

-----------------------------------------------------------------------------
(* Strings and None *)

None == <<"<None>">>

S(a) == <<a>>

Truthy(x) == x # None /\ x # <<>>

\* faulty variant: the operands of `or` swapped
PyOr_swapped(a, b) == IF Truthy(b) THEN b ELSE a

\* Python `a or b` on Optional[str]
PyOr(a, b) == IF Truthy(a) THEN a ELSE b

Contains(s, c) == \E i \in 1..Len(s) : s[i] = c

FirstIndex(s, c) ==
    CHOOSE i \in 1..Len(s) : s[i] = c /\ \A j \in 1..(i - 1) : s[j] # c

LastIndex(s, c) ==
    CHOOSE i \in 1..Len(s) : s[i] = c /\ \A j \in (i + 1)..Len(s) : s[j] # c

\* faulty variant: str.rsplit(":", 1), a split at the last delimiter
Split1_last(s) ==
    <<SubSeq(s, 1, LastIndex(s, ":") - 1),
      SubSeq(s, LastIndex(s, ":") + 1, Len(s))>>

\* model.split(":", 1) for a string that contains ":"
Split1(s) ==
    <<SubSeq(s, 1, FirstIndex(s, ":") - 1),
      SubSeq(s, FirstIndex(s, ":") + 1, Len(s))>>

-----------------------------------------------------------------------------
(* The provider registry *)

\* faulty variant: every backend is given a credential variable
Entry_hosted(env_var, default_model, package, examples) ==
    [env_var |-> PyOr(env_var, S("API_KEY")), default_model |-> default_model,
     package |-> package, examples |-> examples]

Entry(env_var, default_model, package, examples) ==
    [env_var |-> env_var, default_model |-> default_model,
     package |-> package, examples |-> examples]

SUPPORTED_PROVIDERS ==
    (S("openai") :> Entry(S("OPENAI_API_KEY"), S("gpt-4o"), S("langchain-openai"),
        <<S("gpt-4o"), S("gpt-4-turbo"), S("gpt-3.5-turbo"), S("o1"), S("o3-mini")>>))
 @@ (S("anthropic") :> Entry(S("ANTHROPIC_API_KEY"), S("claude-sonnet-4-20250514"),
        S("langchain-anthropic"),
        <<S("claude-sonnet-4-20250514"), S("claude-opus-4-20250514"),
          S("claude-3-5-sonnet-20241022")>>))
 @@ (S("google_vertexai") :> Entry(S("GOOGLE_APPLICATION_CREDENTIALS"),
        S("gemini-2.0-flash"), S("langchain-google-vertexai"),
        <<S("gemini-2.0-flash"), S("gemini-1.5-pro"), S("gemini-1.5-flash")>>))
 @@ (S("google_genai") :> Entry(S("GOOGLE_API_KEY"), S("gemini-2.0-flash"),
        S("langchain-google-genai"),
        <<S("gemini-2.0-flash"), S("gemini-1.5-pro"), S("gemini-1.5-flash")>>))
 @@ (S("cohere") :> Entry(S("COHERE_API_KEY"), S("command-r-plus"), S("langchain-cohere"),
        <<S("command-r-plus"), S("command-r"), S("command")>>))
 @@ (S("groq") :> Entry(S("GROQ_API_KEY"), S("llama-3.3-70b-versatile"), S("langchain-groq"),
        <<S("llama-3.3-70b-versatile"), S("mixtral-8x7b-32768"), S("gemma2-9b-it")>>))
 @@ (S("together") :> Entry(S("TOGETHER_API_KEY"),
        S("meta-llama/Meta-Llama-3.1-70B-Instruct-Turbo"), S("langchain-together"),
        <<S("meta-llama/Meta-Llama-3.1-70B-Instruct-Turbo"),
          S("mistralai/Mixtral-8x7B-Instruct-v0.1")>>))
 @@ (S("mistralai") :> Entry(S("MISTRAL_API_KEY"), S("mistral-large-latest"),
        S("langchain-mistralai"),
        <<S("mistral-large-latest"), S("mistral-medium-latest"),
          S("mistral-small-latest")>>))
 @@ (S("fireworks") :> Entry(S("FIREWORKS_API_KEY"),
        S("accounts/fireworks/models/llama-v3p1-70b-instruct"), S("langchain-fireworks"),
        <<S("accounts/fireworks/models/llama-v3p1-70b-instruct")>>))
 @@ (S("ollama") :> Entry(None, S("llama3.2"), S("langchain-ollama"),
        <<S("llama3.2"), S("mistral"), S("phi3"), S("qwen2.5")>>))
 @@ (S("bedrock") :> Entry(S("AWS_ACCESS_KEY_ID"),
        <<"anthropic.claude-3-5-sonnet-20241022-v2", ":", "0">>, S("langchain-aws"),
        <<<<"anthropic.claude-3-5-sonnet-20241022-v2", ":", "0">>,
          <<"meta.llama3-1-70b-instruct-v1", ":", "0">>>>))
 @@ (S("azure_openai") :> Entry(S("AZURE_OPENAI_API_KEY"), S("gpt-4o"), S("langchain-openai"),
        <<S("gpt-4o"), S("gpt-4-turbo")>>))
 @@ (S("deepseek") :> Entry(S("DEEPSEEK_API_KEY"), S("deepseek-chat"), S("langchain-openai"),
        <<S("deepseek-chat"), S("deepseek-coder")>>))
 @@ (S("xai") :> Entry(S("XAI_API_KEY"), S("grok-2-latest"), S("langchain-xai"),
        <<S("grok-2-latest"), S("grok-2-vision-latest")>>))
 @@ (S("perplexity") :> Entry(S("PERPLEXITY_API_KEY"), S("sonar-pro"),
        S("langchain-community"),
        <<S("sonar-pro"), S("sonar")>>))

ProviderNames == DOMAIN SUPPORTED_PROVIDERS

\* the credential keys the registry declares: the slots of os.environ modelled
EnvVars == {SUPPORTED_PROVIDERS[p].env_var : p \in ProviderNames} \ {None}

\* os.getenv(key): None when the key is unset
Getenv(env, key) == IF key \in DOMAIN env THEN env[key] ELSE None

Range(seq) == {seq[i] : i \in 1..Len(seq)}

-----------------------------------------------------------------------------
(* create_stock_analysis_agent: the computations of its steps *)

\* the split of a prefixed model string; locals the split does not bind are None
ParseModel(m, pr) ==
    IF Truthy(m) /\ Contains(m, ":")
    THEN [provider |-> PyOr(pr, Split1(m)[1]),
          model |-> Split1(m)[2],
          provider_from_model |-> Split1(m)[1],
          model_name |-> Split1(m)[2]]
    ELSE [provider |-> pr, model |-> m,
          provider_from_model |-> None, model_name |-> None]

\* faulty variant: an unregistered provider is replaced by the default provider
DefaultProvider_fallback(pr) ==
    IF ~Truthy(pr) \/ pr \notin DOMAIN SUPPORTED_PROVIDERS THEN S("anthropic") ELSE pr

\* faulty variant: another provider as the default
DefaultProvider_openai(pr) == IF ~Truthy(pr) THEN S("openai") ELSE pr

DefaultProvider(pr) == IF ~Truthy(pr) THEN S("anthropic") ELSE pr

IsSupported(pr) == pr \in DOMAIN registry

\* faulty variant: the default model of the default provider, whatever the provider
DefaultModel_anthropic(m, provider_info) ==
    IF ~Truthy(m) THEN SUPPORTED_PROVIDERS[S("anthropic")].default_model ELSE m

DefaultModel(m, provider_info) ==
    IF ~Truthy(m) THEN provider_info.default_model ELSE m

\* faulty variant: the api_key argument is ignored
ShouldSetKey_never(api_key, provider_info) == FALSE

ShouldSetKey(api_key, provider_info) ==
    Truthy(api_key) /\ Truthy(provider_info.env_var)

\* faulty variant: one credential slot shared by every provider
EnvAfterSet_sharedSlot(env, api_key, provider_info) ==
    [v \in DOMAIN env |-> api_key]

\* faulty variant: the key is also written to the slot of openai
EnvAfterSet_alsoOpenAI(env, api_key, provider_info) ==
    [env EXCEPT ![provider_info.env_var] = api_key,
                ![S("OPENAI_API_KEY")] = api_key]

\* faulty variant: os.environ.setdefault, which keeps a value already there
EnvAfterSet_setdefault(env, api_key, provider_info) ==
    IF env[provider_info.env_var] = None
    THEN [env EXCEPT ![provider_info.env_var] = api_key]
    ELSE env

EnvAfterSet(env, api_key, provider_info) ==
    [env EXCEPT ![provider_info.env_var] = api_key]

\* faulty variant: the check made for every provider
NeedsKey_always(pr, provider_info) == TRUE

NeedsKey(pr, provider_info) ==
    pr # S("ollama") /\ Truthy(provider_info.env_var)

\* faulty variant: `is not None` in place of truthiness
KeyAvailable_notNone(env, provider_info) == Getenv(env, provider_info.env_var) # None

KeyAvailable(env, provider_info) == Truthy(Getenv(env, provider_info.env_var))

\* An exception: its type, its message template, and the values the message
\* interpolates (the provider, and the other names it prints).
NoError == [type |-> "none", what |-> "none", provider |-> None, names |-> {}]

UnsupportedProviderError(pr) ==
    [type |-> "ValueError", what |-> "Unsupported provider",
     provider |-> pr, names |-> DOMAIN registry]

ApiKeyNotFoundError(pr, provider_info) ==
    [type |-> "ValueError", what |-> "API key not found: set env var or pass api_key",
     provider |-> pr, names |-> {provider_info.env_var}]

\* the message also prints the exception caught: "Full error: {e}"
MissingPackageError(pr, provider_info, e) ==
    [type |-> "ImportError", what |-> "Missing package: pip install",
     provider |-> pr, names |-> {provider_info.package}, error |-> e]

\* faulty variant: a single `except Exception` clause
ExceptClause_single(e) == "Exception"

\* the except clause that catches e: `except ImportError` comes first and
\* catches ImportError and its subclasses, `except Exception` the rest
ExceptClause(e) ==
    IF e \in {"ImportError", "ModuleNotFoundError"} THEN "ImportError"
    ELSE "Exception"

\* the message also prints the exception caught: "Error: {e}"
InitFailedError(pr, m, provider_info, e) ==
    [type |-> "RuntimeError", what |-> "Failed to initialize model",
     provider |-> pr, names |-> {m} \cup Range(provider_info.examples),
     error |-> e]

NoModel == [model |-> None, model_provider |-> None]

\* A tool object: its name, and where the object comes from (a tools module
\* or the caller), so that two tools of one name stay two objects.
Tool(name, origin) == [name |-> name, origin |-> origin]

STOCK_TOOLS ==
    <<Tool("get_stock_quote", "stock_analysis_agent.tools"),
      Tool("search_stock_news", "stock_analysis_agent.tools"),
      Tool("calculate_price_change", "stock_analysis_agent.tools"),
      Tool("compare_stocks", "stock_analysis_agent.tools")>>

RESEARCH_TOOLS ==
    <<Tool("web_search", "research_assistant.tools"),
      Tool("fetch_article_content", "research_assistant.tools"),
      Tool("summarize_text", "research_assistant.tools"),
      Tool("extract_key_facts", "research_assistant.tools"),
      Tool("compare_sources", "research_assistant.tools")>>

TOOLS ==
    <<Tool("example_tool_1", "basic_agent.tools"),
      Tool("example_tool_2", "basic_agent.tools")>>

\* Optional[List[BaseTool]]: None, or a list
NoList == [is_none |-> TRUE, list |-> <<>>]

List(l) == [is_none |-> FALSE, list |-> l]

ListTruthy(x) == ~x.is_none /\ Len(x.list) > 0

\* tools = BASE.copy(); if additional_tools: tools.extend(additional_tools)
CombineTools(base, additional_tools) ==
    IF ListTruthy(additional_tools) THEN base \o additional_tools.list ELSE base

\* faulty variant: tools = BASE, so that extend writes the module's own list
BaseAfterCombine_alias(base, additional_tools) ==
    IF ListTruthy(additional_tools) THEN base \o additional_tools.list ELSE base

\* the module's list after the same statements: extend wrote the copy
BaseAfterCombine(base, additional_tools) == base

\* faulty variant: the sub-agent is left to a model of its own
SubagentSpec_ownModel(name, tools, m) ==
    [name |-> name, tools |-> tools, model |-> NoModel]

\* a sub-agent dict: "name", "tools", "model" ("description" and "prompt" are
\* constant texts)
SubagentSpec(name, tools, m) == [name |-> name, tools |-> tools, model |-> m]

\* faulty variant: the specialist is given the module's tools only
TemplateSubagents_baseTools(enable_subagents, tools, m) ==
    IF enable_subagents THEN <<SubagentSpec(S("specialist"), TOOLS, m)>> ELSE <<>>

\* templates/basic_agent/agent.py 115-127
TemplateSubagents(enable_subagents, tools, m) ==
    IF enable_subagents THEN <<SubagentSpec(S("specialist"), tools, m)>> ELSE <<>>

NoAgent ==
    [model |-> NoModel, tools |-> <<>>, subagents |-> <<>>, workspace_dir |-> None]

NoArgs == [model |-> None, provider |-> None, api_key |-> None, workspace_dir |-> None]

\* **model_kwargs: a dict from keyword names to values; none given
NoKwargs == [k \in {} |-> None]

\* temperature, in tenths: the default 0.1
DefaultTemperature == 1

\* the keywords the init_chat_model call at agent.py 243-248 spells out
InitKeywords == {"model", "model_provider", "temperature"}

\* f(model=..., **kwargs) with "model" also a key of kwargs is a TypeError
Collides(kwargs) == DOMAIN kwargs \cap InitKeywords # {}

\* the init_chat_model call with its keyword arguments
ExtInit(m, pr, temp, kwargs) ==
    [fn |-> "init_chat_model", a |-> m, b |-> pr, temperature |-> temp,
     kwargs |-> kwargs]

Ext(fn, a, b) == [fn |-> fn, a |-> a, b |-> b]

\* no tool invocation has returned: the empty dict
NoResult == [k \in {} |-> None]

\* The dict returned by get_supported_providers: the keys whose values are the
\* registry's own descriptor dicts, and the keys the caller added since.
NoView == [aliases |-> {}, added |-> {}]

-----------------------------------------------------------------------------
(* Inputs *)

Procs == {"p1", "p2"}

MaxSegs == 3

FirstSegs == {<<>>, S("openai"), S("ollama"), S("nope"), S("gpt-4o")}

RestSegs == {<<>>, S("gpt-4o"), S("0")}

\* the strings of exactly n segments joined by ":"
RECURSIVE Joined(_)
Joined(n) ==
    IF n = 1 THEN FirstSegs
    ELSE {s \o <<":">> \o r : s \in Joined(n - 1), r \in RestSegs}

ModelArgs == {None} \cup UNION {Joined(n) : n \in 1..MaxSegs}

ProviderArgs == {None, <<>>, S("openai"), S("ollama"), S("nope")}

ApiKeyArgs == {None, <<>>, S("sk-new")}

WorkspaceArgs == {S("./stock_analysis_workspace")}

Outcomes == {"ok", "ImportError", "ModuleNotFoundError", "Exception"}

EnvUnset == [k \in EnvVars |-> None]

EnvOnlyOpenAI == [k \in EnvVars |-> IF k = S("OPENAI_API_KEY") THEN S("sk-old") ELSE None]

EnvAllSet == [k \in EnvVars |-> S("sk-old")]

EnvEmptyValues == [k \in EnvVars |-> <<>>]

InitEnvs == {EnvUnset, EnvOnlyOpenAI, EnvAllSet, EnvEmptyValues}

\* all registered providers, explicit or as an empty-model prefix
RegistryProviderArgs == {None, S("nope")} \cup ProviderNames

RegistryModelArgs ==
    {None, <<>>, S("gpt-4o")} \cup {p \o <<":">> : p \in ProviderNames}

\* model names for the two spellings of one request: provider=X, model=Y and "X:Y"
RoundTripModels == {S("gpt-4o"), SUPPORTED_PROVIDERS[S("bedrock")].default_model}

-----------------------------------------------------------------------------
(* State machine *)

Init ==
    /\ environ \in InitEnvs
    /\ fs = {}
    /\ installed = {}
    /\ pc = [p \in Procs |-> "idle"]
    /\ args = [p \in Procs |-> NoArgs]
    /\ provider = [p \in Procs |-> None]
    /\ model = [p \in Procs |-> None]
    /\ provider_from_model = [p \in Procs |-> None]
    /\ model_name = [p \in Procs |-> None]
    /\ chat_model = [p \in Procs |-> NoModel]
    /\ agent = [p \in Procs |-> NoAgent]
    /\ raised = [p \in Procs |-> NoError]
    /\ calls = [p \in Procs |-> <<>>]
    /\ result = [p \in Procs |-> NoResult]
    /\ registry = SUPPORTED_PROVIDERS
    /\ held = [p \in Procs |-> NoView]
    /\ base_tools = [TOOLS |-> TOOLS, RESEARCH_TOOLS |-> RESEARCH_TOOLS]

\* faulty variant: the directory is left to be created by the agent's first write
Makedirs_lazy(dirs, w) == dirs

\* os.makedirs(w, exist_ok=True) on the directories that exist
Makedirs(dirs, w) == dirs \cup {w}

\* agent.py 194-222: makedirs, parse, default provider, validate, default model
CallKw(self, m, pr, temp, k, w, kwargs) ==
    /\ pc[self] = "idle"
    /\ args' = [args EXCEPT ![self] =
                  [model |-> m, provider |-> pr, temperature |-> temp,
                   api_key |-> k, workspace_dir |-> w, model_kwargs |-> kwargs]]
    /\ fs' = Makedirs(fs, w)
    /\ calls' = [calls EXCEPT ![self] = <<Ext("os.makedirs", w, None)>>]
    /\ LET parsed == ParseModel(m, pr)
           prov == DefaultProvider(parsed.provider)
       IN  /\ provider_from_model' =
                 [provider_from_model EXCEPT ![self] = parsed.provider_from_model]
           /\ model_name' = [model_name EXCEPT ![self] = parsed.model_name]
           /\ provider' = [provider EXCEPT ![self] = prov]
           /\ IF IsSupported(prov)
              THEN /\ model' = [model EXCEPT ![self] =
                                  DefaultModel(parsed.model, registry[prov])]
                   /\ pc' = [pc EXCEPT ![self] = "set_api_key"]
                   /\ raised' = raised
              ELSE /\ model' = [model EXCEPT ![self] = parsed.model]
                   /\ pc' = [pc EXCEPT ![self] = "raised"]
                   /\ raised' = [raised EXCEPT ![self] = UnsupportedProviderError(prov)]
    /\ UNCHANGED <<result, registry, held, base_tools, environ, installed,
                   chat_model, agent>>

\* the call without temperature and without extra keywords
Call(self, m, pr, k, w) == CallKw(self, m, pr, DefaultTemperature, k, w, NoKwargs)

\* agent.py 224-226
SetApiKey(self) ==
    /\ pc[self] = "set_api_key"
    /\ LET provider_info == registry[provider[self]]
       IN  IF ShouldSetKey(args[self].api_key, provider_info)
           THEN /\ environ' = EnvAfterSet(environ, args[self].api_key, provider_info)
                /\ installed' = installed \cup {provider_info.env_var}
                /\ calls' = [calls EXCEPT ![self] = Append(@,
                       Ext("os.environ.__setitem__", provider_info.env_var,
                           args[self].api_key))]
           ELSE UNCHANGED <<environ, installed, calls>>
    /\ pc' = [pc EXCEPT ![self] = "check_api_key"]
    /\ UNCHANGED <<result, registry, held, base_tools, fs, args, provider,
                   model, provider_from_model, model_name, chat_model,
                   agent, raised>>

\* agent.py 228-238
CheckApiKey(self) ==
    /\ pc[self] = "check_api_key"
    /\ LET provider_info == registry[provider[self]]
       IN  IF NeedsKey(provider[self], provider_info)
           THEN /\ calls' = [calls EXCEPT ![self] = Append(@,
                       Ext("os.getenv", provider_info.env_var,
                           Getenv(environ, provider_info.env_var)))]
                /\ IF KeyAvailable(environ, provider_info)
                   THEN /\ pc' = [pc EXCEPT ![self] = "init_chat_model"]
                        /\ raised' = raised
                   ELSE /\ pc' = [pc EXCEPT ![self] = "raised"]
                        /\ raised' = [raised EXCEPT ![self] =
                               ApiKeyNotFoundError(provider[self], provider_info)]
           ELSE /\ pc' = [pc EXCEPT ![self] = "init_chat_model"]
                /\ UNCHANGED <<calls, raised>>
    /\ UNCHANGED <<result, registry, held, base_tools, environ, fs, installed,
                   args, provider, model, provider_from_model,
                   model_name, chat_model, agent>>

\* faulty variant: a failure of init_chat_model is recorded and the call goes on
InitChatModel_swallow(self, outcome) ==
    /\ pc[self] = "init_chat_model"
    /\ calls' = [calls EXCEPT ![self] = Append(@,
            ExtInit(model[self], provider[self], args[self].temperature,
                    args[self].model_kwargs))]
    /\ chat_model' = [chat_model EXCEPT ![self] =
            IF outcome = "ok"
            THEN [model |-> model[self], model_provider |-> provider[self]]
            ELSE NoModel]
    /\ raised' = [raised EXCEPT ![self] =
            IF outcome = "ok" THEN NoError
            ELSE InitFailedError(provider[self], model[self],
                                 registry[provider[self]], outcome)]
    /\ pc' = [pc EXCEPT ![self] = "create_deep_agent"]
    /\ UNCHANGED <<result, registry, held, base_tools, environ, fs, installed,
                   args, provider, model, provider_from_model,
                   model_name, agent>>

\* agent.py 240-263: init_chat_model returns a handle or raises
InitChatModel(self, outcome) ==
    /\ pc[self] = "init_chat_model"
    /\ calls' = [calls EXCEPT ![self] = Append(@,
            ExtInit(model[self], provider[self], args[self].temperature,
                    args[self].model_kwargs))]
    /\ LET provider_info == registry[provider[self]]
           e == IF Collides(args[self].model_kwargs) THEN "TypeError" ELSE outcome
       IN  CASE e = "ok" ->
                   /\ chat_model' = [chat_model EXCEPT ![self] =
                          [model |-> model[self], model_provider |-> provider[self]]]
                   /\ pc' = [pc EXCEPT ![self] = "create_deep_agent"]
                   /\ raised' = raised
             [] e # "ok" /\ ExceptClause(e) = "ImportError" ->
                   /\ raised' = [raised EXCEPT ![self] =
                          MissingPackageError(provider[self], provider_info, e)]
                   /\ pc' = [pc EXCEPT ![self] = "raised"]
                   /\ chat_model' = chat_model
             [] OTHER ->
                   /\ raised' = [raised EXCEPT ![self] =
                          InitFailedError(provider[self], model[self], provider_info, e)]
                   /\ pc' = [pc EXCEPT ![self] = "raised"]
                   /\ chat_model' = chat_model
    /\ UNCHANGED <<result, registry, held, base_tools, environ, fs, installed,
                   args, provider, model, provider_from_model,
                   model_name, agent>>

\* agent.py 265-301
CreateDeepAgent(self) ==
    /\ pc[self] = "create_deep_agent"
    /\ calls' = [calls EXCEPT ![self] = Append(@,
            Ext("create_deep_agent", chat_model[self].model,
                chat_model[self].model_provider))]
    /\ agent' = [agent EXCEPT ![self] =
            [model |-> chat_model[self],
             tools |-> STOCK_TOOLS,
             subagents |-> <<SubagentSpec(S("research_agent"), STOCK_TOOLS,
                                          chat_model[self])>>,
             workspace_dir |-> args[self].workspace_dir]]
    /\ pc' = [pc EXCEPT ![self] = "returned"]
    /\ UNCHANGED <<result, registry, held, base_tools, environ, fs, installed,
                   args, provider, model, provider_from_model,
                   model_name, chat_model, raised>>

\* the call has returned or raised; its frame is released
Return(self) ==
    /\ pc[self] \in {"returned", "raised"}
    /\ pc' = [pc EXCEPT ![self] = "idle"]
    /\ args' = [args EXCEPT ![self] = NoArgs]
    /\ provider' = [provider EXCEPT ![self] = None]
    /\ model' = [model EXCEPT ![self] = None]
    /\ provider_from_model' = [provider_from_model EXCEPT ![self] = None]
    /\ model_name' = [model_name EXCEPT ![self] = None]
    /\ chat_model' = [chat_model EXCEPT ![self] = NoModel]
    /\ agent' = [agent EXCEPT ![self] = NoAgent]
    /\ raised' = [raised EXCEPT ![self] = NoError]
    /\ calls' = [calls EXCEPT ![self] = <<>>]
    /\ result' = [result EXCEPT ![self] = NoResult]
    /\ UNCHANGED <<environ, fs, installed, registry, held, base_tools>>

Step(self) ==
    \/ SetApiKey(self)
    \/ CheckApiKey(self)
    \/ \E outcome \in Outcomes : InitChatModel(self, outcome)
    \/ CreateDeepAgent(self)
    \/ Return(self)

\* one caller, calls not interleaved
Next ==
    \/ /\ pc["p1"] = "idle"
       /\ \E m \in ModelArgs, pr \in ProviderArgs, k \in ApiKeyArgs, w \in WorkspaceArgs :
             Call("p1", m, pr, k, w)
    \/ Step("p1")

Spec == Init /\ [][Next]_vars

\* one caller, every registered provider, no api_key argument
NextRegistry ==
    \/ /\ pc["p1"] = "idle"
       /\ \E m \in RegistryModelArgs, pr \in RegistryProviderArgs, w \in WorkspaceArgs :
             Call("p1", m, pr, None, w)
    \/ Step("p1")

SpecRegistry == Init /\ [][NextRegistry]_vars

\* two callers: p1 passes provider and model apart, p2 the prefixed string
NextPair ==
    \/ /\ pc["p1"] = "idle"
       /\ \E x \in ProviderNames, y \in RoundTripModels, w \in WorkspaceArgs :
             Call("p1", y, x, None, w)
    \/ /\ pc["p2"] = "idle"
       /\ \E x \in ProviderNames, y \in RoundTripModels, w \in WorkspaceArgs :
             Call("p2", x \o <<":">> \o y, None, None, w)
    \/ Step("p1")
    \/ Step("p2")

SpecPair == Init /\ [][NextPair]_vars

-----------------------------------------------------------------------------
(* The other two factories: templates/basic_agent create_agent and          *)
(* agents/research_assistant create_research_assistant.  Neither validates  *)
(* the provider nor checks a credential; both extend the module's tool list *)
(* with the caller's tools.                                                  *)

\* templates/basic_agent/agent.py 25-31
TEMPLATE_PROVIDERS ==
    (S("anthropic") :> [default_model |-> S("claude-sonnet-4-20250514")]) @@
    (S("openai") :> [default_model |-> S("gpt-4o")]) @@
    (S("google_genai") :> [default_model |-> S("gemini-2.0-flash")]) @@
    (S("groq") :> [default_model |-> S("llama-3.3-70b-versatile")]) @@
    (S("ollama") :> [default_model |-> S("llama3.2")])

\* SUPPORTED_PROVIDERS[provider] on a provider that is no key
TemplateKeyError(pr) ==
    [type |-> "KeyError", what |-> "KeyError", provider |-> pr, names |-> {}]

\* templates agent.py 100-107
TemplateInitFailedError(pr, m) ==
    [type |-> "RuntimeError", what |-> "Failed to initialize model",
     provider |-> pr, names |-> {m}]

\* an exception of init_chat_model that no handler catches
Propagated(outcome) ==
    [type |-> outcome, what |-> "raised by init_chat_model",
     provider |-> None, names |-> {}]

MaxTools == 2

CallerTools ==
    {Tool("my_tool", "caller"), Tool("example_tool_1", "caller"),
     Tool("web_search", "caller")}

RECURSIVE ToolLists(_)
ToolLists(n) ==
    IF n = 0 THEN {<<>>}
    ELSE {Append(l, x) : l \in ToolLists(n - 1), x \in CallerTools}

AdditionalToolsArgs ==
    {NoList} \cup {List(l) : l \in UNION {ToolLists(n) : n \in 0..MaxTools}}

FactoryModelArgs ==
    {None, S("gpt-4o"), <<"openai", ":", "gpt-4o">>, <<"nope", ":">>}

FactoryProviderArgs == {None, S("openai"), S("nope")}

TemplateWorkspaceArgs == {S("./workspace")}

ResearchWorkspaceArgs == {S("./research_workspace")}

ResearchDirs(w) ==
    {w \o S("/data/articles"), w \o S("/data/summaries"), w \o S("/data/facts"),
     w \o S("/reports"), w \o S("/notes")}

\* templates agent.py 75-88: makedirs, parse, default provider, default model
CreateAgentCall(self, m, pr, w, extra, sub) ==
    /\ pc[self] = "idle"
    /\ args' = [args EXCEPT ![self] =
                  [model |-> m, provider |-> pr, workspace_dir |-> w,
                   additional_tools |-> extra, enable_subagents |-> sub]]
    /\ fs' = Makedirs(fs, w)
    /\ calls' = [calls EXCEPT ![self] = <<Ext("os.makedirs", w, None)>>]
    /\ LET parsed == ParseModel(m, pr)
           prov == DefaultProvider(parsed.provider)
       IN  /\ provider_from_model' =
                 [provider_from_model EXCEPT ![self] = parsed.provider_from_model]
           /\ model_name' = [model_name EXCEPT ![self] = parsed.model_name]
           /\ provider' = [provider EXCEPT ![self] = prov]
           /\ IF Truthy(parsed.model)
              THEN /\ model' = [model EXCEPT ![self] = parsed.model]
                   /\ pc' = [pc EXCEPT ![self] = "t_init_chat_model"]
                   /\ raised' = raised
              ELSE IF prov \in DOMAIN TEMPLATE_PROVIDERS
              THEN /\ model' = [model EXCEPT ![self] =
                                  TEMPLATE_PROVIDERS[prov].default_model]
                   /\ pc' = [pc EXCEPT ![self] = "t_init_chat_model"]
                   /\ raised' = raised
              ELSE /\ model' = [model EXCEPT ![self] = parsed.model]
                   /\ pc' = [pc EXCEPT ![self] = "raised"]
                   /\ raised' = [raised EXCEPT ![self] = TemplateKeyError(prov)]
    /\ UNCHANGED <<result, registry, held, base_tools, environ, installed,
                   chat_model, agent>>

\* templates agent.py 90-107: every exception becomes a RuntimeError
TemplateInitChatModel(self, outcome) ==
    /\ pc[self] = "t_init_chat_model"
    /\ calls' = [calls EXCEPT ![self] = Append(@,
            Ext("init_chat_model", model[self], provider[self]))]
    /\ IF outcome = "ok"
       THEN /\ chat_model' = [chat_model EXCEPT ![self] =
                   [model |-> model[self], model_provider |-> provider[self]]]
            /\ pc' = [pc EXCEPT ![self] = "t_create_deep_agent"]
            /\ raised' = raised
       ELSE /\ raised' = [raised EXCEPT ![self] =
                   TemplateInitFailedError(provider[self], model[self])]
            /\ pc' = [pc EXCEPT ![self] = "raised"]
            /\ chat_model' = chat_model
    /\ UNCHANGED <<result, registry, held, base_tools, environ, fs, installed,
                   args, provider, model, provider_from_model,
                   model_name, agent>>

\* templates agent.py 109-156: tools, sub-agents, create_deep_agent
TemplateCreateDeepAgent(self) ==
    /\ pc[self] = "t_create_deep_agent"
    /\ base_tools' = [base_tools EXCEPT
           !.TOOLS = BaseAfterCombine(@, args[self].additional_tools)]
    /\ LET tools == CombineTools(base_tools.TOOLS, args[self].additional_tools)
           subagents == TemplateSubagents(args[self].enable_subagents, tools,
                                          chat_model[self])
       IN  /\ calls' = [calls EXCEPT ![self] = Append(@,
                   Ext("create_deep_agent", tools, subagents))]
           /\ agent' = [agent EXCEPT ![self] =
                   [model |-> chat_model[self], tools |-> tools,
                    subagents |-> subagents,
                    workspace_dir |-> args[self].workspace_dir]]
    /\ pc' = [pc EXCEPT ![self] = "returned"]
    /\ UNCHANGED <<result, registry, held, environ, fs, installed, args,
                   provider, model, provider_from_model, model_name,
                   chat_model, raised>>

\* research_assistant agent.py 48-63: makedirs, parse, default provider
CreateResearchAssistantCall(self, m, pr, w, extra) ==
    /\ pc[self] = "idle"
    /\ args' = [args EXCEPT ![self] =
                  [model |-> m, provider |-> pr, workspace_dir |-> w,
                   additional_tools |-> extra]]
    /\ fs' = fs \cup ResearchDirs(w)
    /\ calls' = [calls EXCEPT ![self] =
            <<Ext("os.makedirs", w \o S("/data/articles"), None),
              Ext("os.makedirs", w \o S("/data/summaries"), None),
              Ext("os.makedirs", w \o S("/data/facts"), None),
              Ext("os.makedirs", w \o S("/reports"), None),
              Ext("os.makedirs", w \o S("/notes"), None)>>]
    /\ LET parsed == ParseModel(m, pr)
       IN  /\ provider_from_model' =
                 [provider_from_model EXCEPT ![self] = parsed.provider_from_model]
           /\ model_name' = [model_name EXCEPT ![self] = parsed.model_name]
           /\ provider' = [provider EXCEPT ![self] = DefaultProvider(parsed.provider)]
           /\ model' = [model EXCEPT ![self] = parsed.model]
    /\ pc' = [pc EXCEPT ![self] = "r_init_chat_model"]
    /\ UNCHANGED <<result, registry, held, base_tools, environ, installed,
                   chat_model, agent, raised>>

\* research_assistant agent.py 65-73: no handler around init_chat_model
ResearchInitChatModel(self, outcome) ==
    /\ pc[self] = "r_init_chat_model"
    /\ calls' = [calls EXCEPT ![self] = Append(@,
            Ext("init_chat_model", model[self], provider[self]))]
    /\ IF outcome = "ok"
       THEN /\ chat_model' = [chat_model EXCEPT ![self] =
                   [model |-> model[self], model_provider |-> provider[self]]]
            /\ pc' = [pc EXCEPT ![self] = "r_create_deep_agent"]
            /\ raised' = raised
       ELSE /\ raised' = [raised EXCEPT ![self] = Propagated(outcome)]
            /\ pc' = [pc EXCEPT ![self] = "raised"]
            /\ chat_model' = chat_model
    /\ UNCHANGED <<result, registry, held, base_tools, environ, fs, installed,
                   args, provider, model, provider_from_model,
                   model_name, agent>>

\* research_assistant agent.py 75-118: tools, sub-agent, create_deep_agent
ResearchCreateDeepAgent(self) ==
    /\ pc[self] = "r_create_deep_agent"
    /\ base_tools' = [base_tools EXCEPT
           !.RESEARCH_TOOLS = BaseAfterCombine(@, args[self].additional_tools)]
    /\ LET tools == CombineTools(base_tools.RESEARCH_TOOLS,
                                 args[self].additional_tools)
           subagents == <<SubagentSpec(S("deep_researcher"), tools, chat_model[self])>>
       IN  /\ calls' = [calls EXCEPT ![self] = Append(@,
                   Ext("create_deep_agent", tools, subagents))]
           /\ agent' = [agent EXCEPT ![self] =
                   [model |-> chat_model[self], tools |-> tools,
                    subagents |-> subagents,
                    workspace_dir |-> args[self].workspace_dir]]
    /\ pc' = [pc EXCEPT ![self] = "returned"]
    /\ UNCHANGED <<result, registry, held, environ, fs, installed, args,
                   provider, model, provider_from_model, model_name,
                   chat_model, raised>>

FactoryStep(self) ==
    \/ \E outcome \in Outcomes : TemplateInitChatModel(self, outcome)
    \/ TemplateCreateDeepAgent(self)
    \/ \E outcome \in Outcomes : ResearchInitChatModel(self, outcome)
    \/ ResearchCreateDeepAgent(self)

\* one caller of the three factories, calls not interleaved
NextFactories ==
    \/ /\ pc["p1"] = "idle"
       /\ \E m \in FactoryModelArgs, pr \in FactoryProviderArgs,
             w \in TemplateWorkspaceArgs, extra \in AdditionalToolsArgs,
             sub \in BOOLEAN :
             CreateAgentCall("p1", m, pr, w, extra, sub)
    \/ /\ pc["p1"] = "idle"
       /\ \E m \in FactoryModelArgs, pr \in FactoryProviderArgs,
             w \in ResearchWorkspaceArgs, extra \in AdditionalToolsArgs :
             CreateResearchAssistantCall("p1", m, pr, w, extra)
    \/ /\ pc["p1"] = "idle"
       /\ \E m \in FactoryModelArgs, pr \in FactoryProviderArgs,
             k \in ApiKeyArgs, w \in WorkspaceArgs :
             Call("p1", m, pr, k, w)
    \/ FactoryStep("p1")
    \/ Step("p1")

SpecFactories == Init /\ [][NextFactories]_vars

-----------------------------------------------------------------------------
(* Tools.  A tool is a function of its arguments and of what its            *)
(* collaborator (requests.get) does; its value is the dict it serialises    *)
(* with json.dumps.  A dict is a function from keys to values; a key that   *)
(* is absent from a dict is absent from the function's domain.              *)

\* how a try body ends: with a dict to return, or with an exception
Returns(value) == [raised |-> FALSE, exc |-> "none", value |-> value]

Raises(exc) == [raised |-> TRUE, exc |-> exc, value |-> NoResult]

\* faulty variant: no except clause, the exception leaves the tool
TryExcept_propagate(body, handler) == body

\* try: body / except Exception as e: return json.dumps(handler)
TryExcept(body, handler) == IF body.raised THEN Returns(handler) ELSE body

\* f"{text}: {str(e)}" and f"{text} {arg}"
Msg(text, detail) == <<text, detail>>

\* dict.get(key): None for an absent key
Get(d, k) == IF k \in DOMAIN d THEN d[k] ELSE None

EmptyDict == [k \in {} |-> 0]

\* what requests.get does: it raises (timeout, connection error), or it
\* returns a response with a status code and a body
NoBody == [kind |-> "none", meta |-> EmptyDict, close |-> <<>>, news |-> <<>>]

RequestFails == [kind |-> "exception", status |-> 0, body |-> NoBody]

Http(status, body) == [kind |-> "response", status |-> status, body |-> body]

\* a body that is no JSON: response.json() raises
NotJson == [kind |-> "not_json", meta |-> EmptyDict, close |-> <<>>, news |-> <<>>]

\* {"chart": {"result": []}}: indexing [0] raises IndexError
NoResultBody == [kind |-> "no_result", meta |-> EmptyDict, close |-> <<>>, news |-> <<>>]

\* a JSON object: result[0].meta, result[0].indicators.quote[0].close, news
Json(meta, close, news) == [kind |-> "json", meta |-> meta, close |-> close, news |-> news]

\* a null entry of the close list
NoPrice == 0 - 1

Metas ==
    {EmptyDict,
     [regularMarketPrice |-> 200, previousClose |-> 100],
     [regularMarketPrice |-> 100, previousClose |-> 0],
     [previousClose |-> 100]}

Closes == {<<>>, <<100>>, <<100, 200>>, <<0, 100>>, <<NoPrice, 200, NoPrice, 100>>}

NewsLists == {<<>>, <<[title |-> "t1"]>>, <<[title |-> "t1"], [title |-> "t2"]>>}

Responses ==
    {RequestFails, Http(404, NoBody), Http(200, NotJson), Http(200, NoResultBody),
     Http(200, Json(EmptyDict, <<>>, <<>>))}
    \cup {Http(200, Json(m, <<>>, <<>>)) : m \in Metas}
    \cup {Http(200, Json(EmptyDict, c, <<>>)) : c \in Closes}
    \cup {Http(200, Json(EmptyDict, <<>>, n)) : n \in NewsLists}

\* str.upper and str.strip on the atoms used as ticker text
Upper(a) ==
    CASE a = "aapl" -> "AAPL"
      [] a = "msft" -> "MSFT"
      [] a = " msft" -> " MSFT"
      [] OTHER -> a

Strip(a) ==
    CASE a = " msft" -> "msft"
      [] a = " MSFT" -> "MSFT"
      [] OTHER -> a

UpperStr(s) == [i \in 1..Len(s) |-> Upper(s[i])]

TickerArgs == {<<>>, S("AAPL"), S("aapl")}

\* seq[:n]
Take(seq, n) ==
    IF n >= 0 THEN SubSeq(seq, 1, IF n < Len(seq) THEN n ELSE Len(seq))
    ELSE SubSeq(seq, 1, IF Len(seq) + n > 0 THEN Len(seq) + n ELSE 0)

\* response.json() then data.get("chart", {}).get("result", [{}])[0]
ChartData(resp) ==
    IF resp.body.kind = "not_json" THEN Raises("JSONDecodeError")
    ELSE IF resp.body.kind = "no_result" THEN Raises("IndexError")
    ELSE Returns(resp.body)

\* stock tools.py 26-69
get_stock_quote(ticker, resp) ==
    LET body ==
          IF resp.kind = "exception" THEN Raises("RequestException")
          ELSE IF resp.status = 200
          THEN LET chart_data == ChartData(resp)
                   meta == chart_data.value.meta
               IN  IF chart_data.raised THEN chart_data
                   ELSE Returns([ticker |-> UpperStr(ticker),
                                 current_price |-> Get(meta, "regularMarketPrice"),
                                 previous_close |-> Get(meta, "previousClose"),
                                 day_high |-> Get(meta, "regularMarketDayHigh"),
                                 day_low |-> Get(meta, "regularMarketDayLow"),
                                 volume |-> Get(meta, "regularMarketVolume"),
                                 currency |-> Get(meta, "currency"),
                                 exchange |-> Get(meta, "exchangeName"),
                                 timestamp |-> Get(meta, "regularMarketTime")])
          ELSE Returns([error |-> Msg("Failed to fetch data for", ticker),
                        status_code |-> resp.status])
    IN  TryExcept(body, [error |-> Msg("Error fetching stock quote", body.exc),
                         ticker |-> ticker])

\* stock tools.py 87-130
search_stock_news(ticker, num_results, resp) ==
    LET body ==
          IF resp.kind = "exception" THEN Raises("RequestException")
          ELSE IF resp.status = 200
          THEN IF resp.body.kind = "not_json" THEN Raises("JSONDecodeError")
               ELSE LET items == Take(resp.body.news, num_results)
                        articles == [i \in 1..Len(items) |->
                                       [title |-> Get(items[i], "title"),
                                        publisher |-> Get(items[i], "publisher"),
                                        link |-> Get(items[i], "link"),
                                        published_at |-> Get(items[i], "providerPublishTime")]]
                    IN  Returns([ticker |-> UpperStr(ticker),
                                 articles |-> articles,
                                 count |-> Len(articles)])
          ELSE Returns([error |-> Msg("Failed to fetch news for", ticker),
                        status_code |-> resp.status])
    IN  TryExcept(body, [error |-> Msg("Error searching news", body.exc),
                         ticker |-> ticker])

PeriodArgs == {S("1mo"), S("1y"), S("2w")}

\* period_map.get(period, "1mo")
RangeParam(period) ==
    IF period \in {S("1d"), S("5d"), S("1mo"), S("3mo"), S("6mo"), S("1y")}
    THEN period ELSE S("1mo")

\* [p for p in close_prices if p is not None]
RECURSIVE NotNone(_)
NotNone(close) ==
    IF close = <<>> THEN <<>>
    ELSE IF Head(close) = NoPrice THEN NotNone(Tail(close))
    ELSE <<Head(close)>> \o NotNone(Tail(close))

\* (a / b) * 100 on prices where the quotient is exact; b = 0 raises
Percent(a, b) == (a * 100) \div b

\* stock tools.py 148-212
calculate_price_change(ticker, period, resp) ==
    LET body ==
          IF resp.kind = "exception" THEN Raises("RequestException")
          ELSE IF resp.status = 200
          THEN LET chart_data == ChartData(resp)
                   close_prices == NotNone(chart_data.value.close)
                   start_price == close_prices[1]
                   end_price == close_prices[Len(close_prices)]
                   price_change == end_price - start_price
               IN  IF chart_data.raised THEN chart_data
                   ELSE IF Len(close_prices) >= 2
                   THEN IF start_price = 0 THEN Raises("ZeroDivisionError")
                        ELSE Returns([ticker |-> UpperStr(ticker),
                                      period |-> period,
                                      start_price |-> start_price,
                                      end_price |-> end_price,
                                      price_change |-> price_change,
                                      percent_change |-> Percent(price_change, start_price),
                                      trend |-> IF price_change > 0 THEN "up"
                                                ELSE IF price_change < 0 THEN "down"
                                                ELSE "flat"])
                   ELSE Returns([error |-> Msg("Insufficient price data", <<>>),
                                 ticker |-> ticker])
          ELSE Returns([error |-> Msg("Failed to fetch price data for", ticker),
                        status_code |-> resp.status])
    IN  TryExcept(body, [error |-> Msg("Error calculating price change", body.exc),
                         ticker |-> ticker])

\* str.split(","): the pieces between the "," atoms
RECURSIVE SplitComma(_)
SplitComma(s) ==
    IF "," \notin Range(s) THEN <<s>>
    ELSE LET i == CHOOSE k \in 1..Len(s) :
                    s[k] = "," /\ \A j \in 1..(k - 1) : s[j] # ","
         IN  <<SubSeq(s, 1, i - 1)>> \o SplitComma(SubSeq(s, i + 1, Len(s)))

StripStr(s) == [i \in 1..Len(s) |-> Strip(s[i])]

\* [t.strip().upper() for t in tickers.split(",")]
TickerList(tickers) ==
    LET pieces == SplitComma(tickers)
    IN  [i \in 1..Len(pieces) |-> UpperStr(StripStr(pieces[i]))]

\* the comparison row of one ticker, stock tools.py 248-257
ComparisonRow(ticker, meta) ==
    [ticker |-> ticker,
     current_price |-> Get(meta, "regularMarketPrice"),
     previous_close |-> Get(meta, "previousClose"),
     day_change_percent |->
         IF "previousClose" \in DOMAIN meta /\ meta["previousClose"] # 0
         THEN Percent((IF "regularMarketPrice" \in DOMAIN meta
                       THEN meta["regularMarketPrice"] ELSE 0)
                          - meta["previousClose"], meta["previousClose"])
         ELSE None,
     volume |-> Get(meta, "regularMarketVolume")]

\* the loop of stock tools.py 233-257 from ticker i on: the rows appended, or
\* the exception that ends it
RECURSIVE ComparisonsFrom(_, _, _)
ComparisonsFrom(ticker_list, resps, i) ==
    IF i > Len(ticker_list) THEN Returns(<<>>)
    ELSE LET resp == resps[i]
             rest == ComparisonsFrom(ticker_list, resps, i + 1)
             chart_data == ChartData(resp)
         IN  IF resp.kind = "exception" THEN Raises("RequestException")
             ELSE IF resp.status # 200 THEN rest
             ELSE IF chart_data.raised THEN chart_data
             ELSE IF rest.raised THEN rest
             ELSE Returns(<<ComparisonRow(ticker_list[i], chart_data.value.meta)>>
                             \o rest.value)

\* stock tools.py 229-268; resps[i] is what requests.get does for ticker i
compare_stocks(tickers, resps) ==
    LET comparisons == ComparisonsFrom(TickerList(tickers), resps, 1)
        body == IF comparisons.raised THEN comparisons
                ELSE Returns([comparison |-> comparisons.value,
                              count |-> Len(comparisons.value)])
    IN  TryExcept(body, [error |-> Msg("Error comparing stocks", body.exc),
                         tickers |-> tickers])

TickersArgs ==
    {<<>>, S("AAPL"), <<"aapl", ",", " msft">>, <<"AAPL", ",">>}

CompareResponses ==
    {RequestFails, Http(404, NoBody), Http(200, NoResultBody)}
    \cup {Http(200, Json(m, <<>>, <<>>)) : m \in Metas}

\* research tools.py 35-58; nothing in the body raises for a str and an int
web_search(query, num_results) ==
    LET n == IF num_results > 0 THEN num_results ELSE 0
        body == Returns([query |-> query,
                         results |-> [i \in 1..n |->
                                        [title |-> Msg("Result for", query),
                                         snippet |-> Msg("Information about", query),
                                         url |-> i]],
                         count |-> num_results])
    IN  TryExcept(body, [success |-> FALSE, error |-> S(body.exc), query |-> query])

QueryArgs == {<<>>, S("ai safety")}

NumArgs == {0 - 1, 0, 1, 2}

ContentLimit == 5000

\* an HTML page whose extracted text has the given number of characters
Html(length) == [kind |-> "html", length |-> length]

ArticleResponses ==
    {[kind |-> "exception", status |-> 0, body |-> Html(0)],
     Http(404, Html(0)), Http(500, Html(0)),
     Http(200, Html(0)), Http(200, Html(ContentLimit)), Http(200, Html(ContentLimit + 1))}

UrlArgs == {<<>>, S("https://example.com/article")}

\* research tools.py 78-117; content is given by its length
fetch_article_content(url, resp) ==
    LET body ==
          IF resp.kind = "exception" THEN Raises("RequestException")
          ELSE IF resp.status # 200
          THEN Returns([success |-> FALSE, error |-> Msg("HTTP", resp.status),
                        url |-> url])
          ELSE Returns([success |-> TRUE, url |-> url,
                        content |-> IF resp.body.length < ContentLimit
                                    THEN resp.body.length ELSE ContentLimit,
                        length |-> resp.body.length,
                        truncated |-> resp.body.length > ContentLimit])
    IN  TryExcept(body, [success |-> FALSE, error |-> S(body.exc), url |-> url])

\* seq[n:]
Drop(seq, n) ==
    IF n >= 0 THEN SubSeq(seq, (IF n < Len(seq) THEN n ELSE Len(seq)) + 1, Len(seq))
    ELSE SubSeq(seq, (IF Len(seq) + n > 0 THEN Len(seq) + n ELSE 0) + 1, Len(seq))

\* research tools.py 140-163.  A text is the sequence of its words, which is
\* what text.split() yields.  The summary f"{start}...\n\n{end}" is the words
\* of start, the mark "...", the words of end; summary.split() counts the
\* mark as a word of its own only when start is empty, since it is written
\* against the last word of start.
summarize_text(text, max_length) ==
    LET words == text
        start == Take(words, max_length \div 2)
        end == Drop(words, (0 - max_length) \div 2)
        body ==
          IF Len(words) <= max_length
          THEN Returns([success |-> TRUE, original_length |-> Len(words),
                        summary_length |-> Len(text), summary |-> text])
          ELSE Returns([success |-> TRUE, original_length |-> Len(words),
                        summary_length |->
                            (IF start = <<>> THEN 1 ELSE Len(start)) + Len(end),
                        summary |-> start \o <<"...">> \o end])
    IN  TryExcept(body, [success |-> FALSE, error |-> S(body.exc)])

TextArgs ==
    {<<>>, <<"w1">>, <<"w1", "w2", "w3">>, <<"w1", "w2", "w3", "w4", "w5">>}

MaxLengthArgs == {0 - 1, 0, 1, 2, 3, 4, 200}

\* str.lower on the atoms used as words and sentences
Lower(a) == IF a = "Key" THEN "key" ELSE a

\* any(keyword in sentence.lower() for keyword in keywords)
HasKeyword(sentence) == Lower(sentence) \in {"key", "found evidence"}

\* the loop of research tools.py 191-196 over the sentences left, facts so far
RECURSIVE FactsFrom(_, _, _)
FactsFrom(sentences, facts, num_facts) ==
    IF sentences = <<>> THEN facts
    ELSE LET f == IF HasKeyword(Head(sentences))
                  THEN Append(facts, Head(sentences)) ELSE facts
         IN  IF Len(f) >= num_facts THEN f
             ELSE FactsFrom(Tail(sentences), f, num_facts)

\* research tools.py 184-208.  A text is the sequence of its sentences, which
\* is what text.split('. ') yields; the empty text yields one empty sentence.
extract_key_facts(text, num_facts) ==
    LET sentences == IF text = <<>> THEN <<"">> ELSE text
        facts == FactsFrom(sentences, <<>>, num_facts)
        body == Returns([success |-> TRUE, facts |-> Take(facts, num_facts),
                         count |-> Len(facts)])
    IN  TryExcept(body, [success |-> FALSE, error |-> S(body.exc)])

SentenceArgs ==
    {<<>>, <<"filler">>, <<"Key", "filler", "found evidence">>, <<"Key", "key">>}

\* set(text.lower().split())
WordSet(text) == {Lower(text[i]) : i \in 1..Len(text)}

\* research tools.py 232-254; the score is the pair numerator, denominator
compare_sources(source1_text, source2_text) ==
    LET words1 == WordSet(source1_text)
        words2 == WordSet(source2_text)
        common == words1 \cap words2
        longer == IF Cardinality(words1) > Cardinality(words2)
                  THEN Cardinality(words1) ELSE Cardinality(words2)
        body ==
          IF longer = 0 THEN Raises("ZeroDivisionError")
          ELSE Returns([success |-> TRUE,
                        common_terms_count |-> Cardinality(common),
                        unique_to_source1 |-> Cardinality(words1 \ words2),
                        unique_to_source2 |-> Cardinality(words2 \ words1),
                        similarity_score |-> <<Cardinality(common), longer>>,
                        common_sample |-> common])
    IN  TryExcept(body, [success |-> FALSE, error |-> S(body.exc)])

SourceArgs == {<<>>, <<"Key", "w1">>, <<"key", "w2">>}

\* templates tools.py 34-49
example_tool_1(query) ==
    LET body == Returns([success |-> TRUE, data |-> Msg("Processed", query),
                         query |-> query])
    IN  TryExcept(body, [success |-> FALSE, error |-> S(body.exc), query |-> query])

\* templates tools.py 72-89
example_tool_2(param1, param2) ==
    LET body == Returns([success |-> TRUE,
                         data |-> [param1 |-> param1, param2 |-> param2,
                                   processed |-> TRUE]])
    IN  TryExcept(body, [success |-> FALSE, error |-> S(body.exc)])

Param2Args == {0, 5, 10}

\* an exception that leaves a tool
ToolError(exc) ==
    [type |-> exc, what |-> "raised by a tool", provider |-> None, names |-> {}]

\* a tool is invoked with the arguments a, makes the requests reqs and ends
\* as out says: it returns json.dumps(out.value), or out.exc leaves it
Invoke(self, a, reqs, out) ==
    /\ pc[self] = "idle"
    /\ args' = [args EXCEPT ![self] = a]
    /\ calls' = [calls EXCEPT ![self] = reqs]
    /\ IF out.raised
       THEN /\ pc' = [pc EXCEPT ![self] = "raised"]
            /\ raised' = [raised EXCEPT ![self] = ToolError(out.exc)]
            /\ result' = result
       ELSE /\ pc' = [pc EXCEPT ![self] = "returned"]
            /\ result' = [result EXCEPT ![self] = out.value]
            /\ raised' = raised
    /\ UNCHANGED <<environ, fs, installed, provider, model, provider_from_model,
                   model_name, chat_model, agent, registry, held,
                   base_tools>>

\* requests.get(url of ticker) and the response it gave
Get1(ticker, resp) == <<Ext("requests.get", ticker, resp)>>

\* the requests of the compare_stocks loop: one per ticker, up to the first
\* one that ends the loop with an exception
RECURSIVE RequestsFrom(_, _, _)
RequestsFrom(ticker_list, resps, i) ==
    IF i > Len(ticker_list) THEN <<>>
    ELSE Get1(ticker_list[i], resps[i]) \o
         (IF resps[i].kind = "exception"
             \/ (resps[i].status = 200 /\ ChartData(resps[i]).raised)
          THEN <<>>
          ELSE RequestsFrom(ticker_list, resps, i + 1))

GetStockQuote(self, ticker, resp) ==
    Invoke(self, [tool |-> "get_stock_quote", ticker |-> ticker],
           Get1(ticker, resp), get_stock_quote(ticker, resp))

SearchStockNews(self, ticker, num_results, resp) ==
    Invoke(self, [tool |-> "search_stock_news", ticker |-> ticker,
                  num_results |-> num_results],
           Get1(ticker, resp), search_stock_news(ticker, num_results, resp))

CalculatePriceChange(self, ticker, period, resp) ==
    Invoke(self, [tool |-> "calculate_price_change", ticker |-> ticker,
                  period |-> period],
           <<Ext("requests.get", <<ticker, RangeParam(period)>>, resp)>>,
           calculate_price_change(ticker, period, resp))

CompareStocks(self, tickers, resps) ==
    Invoke(self, [tool |-> "compare_stocks", tickers |-> tickers],
           RequestsFrom(TickerList(tickers), resps, 1),
           compare_stocks(tickers, resps))

WebSearch(self, query, num_results) ==
    Invoke(self, [tool |-> "web_search", query |-> query,
                  num_results |-> num_results],
           <<>>, web_search(query, num_results))

FetchArticleContent(self, url, resp) ==
    Invoke(self, [tool |-> "fetch_article_content", url |-> url],
           Get1(url, resp), fetch_article_content(url, resp))

SummarizeText(self, text, max_length) ==
    Invoke(self, [tool |-> "summarize_text", text |-> text,
                  max_length |-> max_length],
           <<>>, summarize_text(text, max_length))

ExtractKeyFacts(self, text, num_facts) ==
    Invoke(self, [tool |-> "extract_key_facts", text |-> text,
                  num_facts |-> num_facts],
           <<>>, extract_key_facts(text, num_facts))

CompareSources(self, source1_text, source2_text) ==
    Invoke(self, [tool |-> "compare_sources", source1_text |-> source1_text,
                  source2_text |-> source2_text],
           <<>>, compare_sources(source1_text, source2_text))

ExampleTool1(self, query) ==
    Invoke(self, [tool |-> "example_tool_1", query |-> query],
           <<>>, example_tool_1(query))

ExampleTool2(self, param1, param2) ==
    Invoke(self, [tool |-> "example_tool_2", param1 |-> param1,
                  param2 |-> param2],
           <<>>, example_tool_2(param1, param2))

\* one agent run invoking the tools one at a time
NextTools ==
    \/ /\ pc["p1"] = "idle"
       /\ \/ \E ticker \in TickerArgs, resp \in Responses :
                GetStockQuote("p1", ticker, resp)
          \/ \E ticker \in TickerArgs, n \in NumArgs, resp \in Responses :
                SearchStockNews("p1", ticker, n, resp)
          \/ \E ticker \in TickerArgs, period \in PeriodArgs, resp \in Responses :
                CalculatePriceChange("p1", ticker, period, resp)
          \/ \E tickers \in TickersArgs :
                \E resps \in [1..Len(SplitComma(tickers)) -> CompareResponses] :
                   CompareStocks("p1", tickers, resps)
          \/ \E query \in QueryArgs, n \in NumArgs : WebSearch("p1", query, n)
          \/ \E url \in UrlArgs, resp \in ArticleResponses :
                FetchArticleContent("p1", url, resp)
          \/ \E text \in TextArgs, n \in MaxLengthArgs : SummarizeText("p1", text, n)
          \/ \E text \in SentenceArgs, n \in NumArgs : ExtractKeyFacts("p1", text, n)
          \/ \E s1 \in SourceArgs, s2 \in SourceArgs : CompareSources("p1", s1, s2)
          \/ \E query \in QueryArgs : ExampleTool1("p1", query)
          \/ \E param1 \in QueryArgs, param2 \in Param2Args :
                ExampleTool2("p1", param1, param2)
    \/ Return("p1")

SpecTools == Init /\ [][NextTools]_vars

-----------------------------------------------------------------------------
(* The registry as an object.  get_supported_providers returns               *)
(* SUPPORTED_PROVIDERS.copy(): a new outer dict whose values are the         *)
(* registry's own descriptor dicts.                                          *)

\* dict.copy(): the keys are copied, the values are shared
ShallowCopy(reg) == [aliases |-> DOMAIN reg, added |-> {}]

\* agent.py 303-316
GetSupportedProviders(self) ==
    /\ pc[self] = "idle"
    /\ args' = [args EXCEPT ![self] = [fn |-> "get_supported_providers"]]
    /\ calls' = [calls EXCEPT ![self] = <<>>]
    /\ held' = [held EXCEPT ![self] = ShallowCopy(registry)]
    /\ pc' = [pc EXCEPT ![self] = "returned"]
    /\ UNCHANGED <<environ, fs, installed, provider, model, provider_from_model,
                   model_name, chat_model, agent, raised, result,
                   registry, base_tools>>

\* agent.py 319-346: prints every entry of the registry, changes nothing
ListProviders(self) ==
    /\ pc[self] = "idle"
    /\ args' = [args EXCEPT ![self] = [fn |-> "list_providers"]]
    /\ calls' = [calls EXCEPT ![self] =
            <<Ext("print", registry, Cardinality(DOMAIN registry))>>]
    /\ pc' = [pc EXCEPT ![self] = "returned"]
    /\ UNCHANGED <<environ, fs, installed, provider, model, provider_from_model,
                   model_name, chat_model, agent, raised, result,
                   registry, held, base_tools>>

\* the caller: providers["nope"] = {...}
CallerAddsProvider(self, name) ==
    /\ pc[self] = "idle"
    /\ held[self] # NoView
    /\ name \notin held[self].aliases \cup held[self].added
    /\ held' = [held EXCEPT ![self].added = @ \cup {name}]
    /\ UNCHANGED <<environ, fs, installed, pc, args, provider, model,
                   provider_from_model, model_name, chat_model, agent,
                   raised, calls, result, registry, base_tools>>

\* the caller: del providers["openai"]
CallerRemovesProvider(self, name) ==
    /\ pc[self] = "idle"
    /\ name \in held[self].aliases
    /\ held' = [held EXCEPT ![self].aliases = @ \ {name}]
    /\ UNCHANGED <<environ, fs, installed, pc, args, provider, model,
                   provider_from_model, model_name, chat_model, agent,
                   raised, calls, result, registry, base_tools>>

\* the caller: providers["openai"]["env_var"] = None; the descriptor reached
\* through the copy is the registry's own
CallerSetsEnvVar(self, name) ==
    /\ pc[self] = "idle"
    /\ name \in held[self].aliases
    /\ registry' = [registry EXCEPT ![name].env_var = None]
    /\ UNCHANGED <<environ, fs, installed, pc, args, provider, model,
                   provider_from_model, model_name, chat_model, agent,
                   raised, calls, result, held, base_tools>>

\* the caller: providers["openai"]["default_model"] = "0"
CallerSetsDefaultModel(self, name) ==
    /\ pc[self] = "idle"
    /\ name \in held[self].aliases
    /\ registry' = [registry EXCEPT ![name].default_model = S("0")]
    /\ UNCHANGED <<environ, fs, installed, pc, args, provider, model,
                   provider_from_model, model_name, chat_model, agent,
                   raised, calls, result, held, base_tools>>

\* one caller of the module's three functions who edits the dict it was given
NextViews ==
    \/ GetSupportedProviders("p1")
    \/ ListProviders("p1")
    \/ \E name \in {S("nope")} : CallerAddsProvider("p1", name)
    \/ \E name \in {S("openai"), S("anthropic")} : CallerRemovesProvider("p1", name)
    \/ \E name \in {S("openai"), S("anthropic")} : CallerSetsEnvVar("p1", name)
    \/ \E name \in {S("openai"), S("anthropic")} : CallerSetsDefaultModel("p1", name)
    \/ /\ pc["p1"] = "idle"
       /\ \E m \in FactoryModelArgs, pr \in FactoryProviderArgs, w \in WorkspaceArgs :
             Call("p1", m, pr, None, w)
    \/ Step("p1")

SpecViews == Init /\ [][NextViews]_vars

-----------------------------------------------------------------------------
(* Extra keyword arguments of create_stock_analysis_agent *)

KwargsArgs ==
    {NoKwargs,
     [max_tokens |-> 1000],
     [model_provider |-> S("anthropic")],
     [max_tokens |-> 1000, model_provider |-> S("openai")]}

TemperatureArgs == {DefaultTemperature, 7}

\* one caller passing extra keywords, calls not interleaved
NextKwargs ==
    \/ /\ pc["p1"] = "idle"
       /\ \E m \in FactoryModelArgs, pr \in FactoryProviderArgs, temp \in TemperatureArgs,
             k \in ApiKeyArgs, w \in WorkspaceArgs, kwargs \in KwargsArgs :
             CallKw("p1", m, pr, temp, k, w, kwargs)
    \/ Step("p1")

SpecKwargs == Init /\ [][NextKwargs]_vars

-----------------------------------------------------------------------------
(* Vocabulary of the properties.  "Given" means non-empty: the code tests    *)
(* model, provider, api_key and the environment value by truthiness, so an   *)
(* empty string counts as absent everywhere.                                  *)

Started(p) == pc[p] # "idle"

HasColon(s) == Truthy(s) /\ ":" \in Range(s)

\* s is l ":" r and l holds no ":", i.e. the ":" between them is the first of s
IsFirstSplit(s, l, r) == s = l \o <<":">> \o r /\ ":" \notin Range(l)

\* the init_chat_model calls a call has made: <<model, model_provider>>
InitCalls(p) ==
    {<<calls[p][i].a, calls[p][i].b>> :
        i \in {j \in 1..Len(calls[p]) : calls[p][j].fn = "init_chat_model"}}

EnvWrites(p) ==
    {i \in 1..Len(calls[p]) : calls[p][i].fn = "os.environ.__setitem__"}

-----------------------------------------------------------------------------
\* C1: a model string that contains ":" is split at its first ":" only: the
\* text left of it is the provider candidate (the provider when none is given
\* explicitly), the text right of it, further ":" included, is the model
\* candidate and, when non-empty, the model passed to init_chat_model.
C1_SplitAtFirstColon ==
    \A p \in Procs :
        (Started(p) /\ HasColon(args[p].model)) =>
            /\ IsFirstSplit(args[p].model, provider_from_model[p], model_name[p])
            /\ (~Truthy(args[p].provider) /\ Truthy(provider_from_model[p]))
                  => provider[p] = provider_from_model[p]
            /\ Truthy(model_name[p]) =>
                  \A c \in InitCalls(p) : c[1] = model_name[p]

\* "openai:gpt-4o:0" reached init_chat_model as (gpt-4o:0, openai)
C1_Witness ==
    \E p \in Procs :
        /\ args[p].model = <<"openai", ":", "gpt-4o", ":", "0">>
        /\ args[p].provider = None
        /\ <<<<"gpt-4o", ":", "0">>, S("openai")>> \in InitCalls(p)

\* C2: a given explicit provider overrides the provider embedded in the model
\* string: it is the provider validated and the provider passed to
\* init_chat_model, and a conflicting prefix raises nothing.
C2_ExplicitProviderWins ==
    \A p \in Procs :
        (Started(p) /\ Truthy(args[p].provider)) =>
            /\ provider[p] = args[p].provider
            /\ \A c \in InitCalls(p) : c[2] = args[p].provider
            /\ raised[p].what = "Unsupported provider" =>
                  (raised[p].provider = args[p].provider
                      /\ args[p].provider \notin ProviderNames)
            /\ args[p].provider \in ProviderNames =>
                  raised[p].what \in {"none", "API key not found: set env var or pass api_key",
                                      "Missing package: pip install",
                                      "Failed to initialize model"}
            /\ (args[p].provider \in ProviderNames /\ pc[p] = "raised") =>
                  raised[p].what # "Unsupported provider"

\* "ollama:gpt-4o" with provider="openai" reached init_chat_model as openai
C2_Witness ==
    \E p \in Procs :
        /\ args[p].model = <<"ollama", ":", "gpt-4o">>
        /\ args[p].provider = S("openai")
        /\ <<S("gpt-4o"), S("openai")>> \in InitCalls(p)

-----------------------------------------------------------------------------
\* C3: round trip: for a registered provider X and a non-empty model name Y,
\* the call (provider=X, model=Y) and the call (model="X:Y") hand the same
\* (model, provider) pair to init_chat_model.
C3_RoundTrip ==
    \A p \in Procs, q \in Procs :
        (/\ args[p].provider \in ProviderNames
         /\ Truthy(args[p].model)
         /\ args[q].provider = None
         /\ args[q].model = args[p].provider \o <<":">> \o args[p].model
         /\ InitCalls(p) # {}
         /\ InitCalls(q) # {}) =>
            InitCalls(p) = InitCalls(q)

\* C5: with no provider given and no prefix the provider is detected from the
\* model name: model="gpt-4o" with only OPENAI_API_KEY in the environment
\* passes the credential check and initializes an openai model.
C5_AutoDetectFromModelName ==
    \A p \in Procs :
        (/\ args[p].model = S("gpt-4o")
         /\ args[p].provider = None
         /\ args[p].api_key = None
         /\ environ = EnvOnlyOpenAI
         /\ pc[p] \notin {"idle", "set_api_key", "check_api_key"}) =>
            /\ raised[p].what # "API key not found: set env var or pass api_key"
            /\ provider[p] = S("openai")
            /\ \A c \in InitCalls(p) : c[2] = S("openai")

\* no model is known: the model is absent or empty, or it is "P:" with nothing
\* right of its first ":"
NoModelKnown(m) ==
    \/ ~Truthy(m)
    \/ /\ m[Len(m)] = ":"
       /\ ":" \notin Range(SubSeq(m, 1, Len(m) - 1))

\* C6: when no model is known after parsing, the model is the default_model of
\* the resolved provider, for every registered provider; model=None and
\* provider=None with ANTHROPIC_API_KEY set give (anthropic,
\* claude-sonnet-4-20250514).
C6_DefaultModelOfProvider ==
    \A p \in Procs :
        /\ (Started(p) /\ NoModelKnown(args[p].model) /\ provider[p] \in ProviderNames) =>
              /\ model[p] = SUPPORTED_PROVIDERS[provider[p]].default_model
              /\ \A c \in InitCalls(p) :
                    c = <<SUPPORTED_PROVIDERS[provider[p]].default_model, provider[p]>>
        /\ (/\ args[p].model = None
            /\ args[p].provider = None
            /\ pc[p] \notin {"idle", "set_api_key", "check_api_key", "init_chat_model"}
            /\ Truthy(environ[S("ANTHROPIC_API_KEY")])) =>
              InitCalls(p) = {<<S("claude-sonnet-4-20250514"), S("anthropic")>>}

\* "bedrock:" reached init_chat_model with bedrock's default model
C6_Witness ==
    \E p \in Procs :
        /\ args[p].model = <<"bedrock", ":">>
        /\ args[p].provider = None
        /\ InitCalls(p) =
              {<<<<"anthropic.claude-3-5-sonnet-20241022-v2", ":", "0">>, S("bedrock")>>}

-----------------------------------------------------------------------------
\* the provider the arguments resolve to: the explicit one, else the prefix of
\* the model string, else the default
ResolvedFromArgs(p) ==
    IF Truthy(args[p].provider) THEN args[p].provider
    ELSE IF Truthy(provider_from_model[p]) THEN provider_from_model[p]
    ELSE S("anthropic")

Fns(p) == {calls[p][i].fn : i \in 1..Len(calls[p])}

\* C7: a call whose resolved provider is not a key of SUPPORTED_PROVIDERS
\* fails with an error naming that provider and all registered providers; no
\* default is substituted, no credential is written, and neither
\* init_chat_model nor create_deep_agent is called.
C7_UnsupportedProviderFails ==
    \A p \in Procs :
        (Started(p) /\ ResolvedFromArgs(p) \notin ProviderNames) =>
            /\ pc[p] = "raised"
            /\ provider[p] = ResolvedFromArgs(p)
            /\ raised[p] = [type |-> "ValueError", what |-> "Unsupported provider",
                            provider |-> ResolvedFromArgs(p), names |-> ProviderNames]
            /\ Fns(p) = {"os.makedirs"}
            /\ agent[p] = NoAgent
            /\ chat_model[p] = NoModel

\* provider="nope" with an api_key has raised
C7_Witness ==
    \E p \in Procs :
        /\ args[p].provider = S("nope")
        /\ args[p].api_key = S("sk-new")
        /\ pc[p] = "raised"
        /\ raised[p].provider = S("nope")

\* C8: ollama declares no credential key: the credential step passes for
\* every environment and every api_key, and writes nothing to the environment.
C8_NoCredentialProviderPasses ==
    \A p \in Procs :
        (Started(p) /\ provider[p] = S("ollama")) =>
            /\ EnvWrites(p) = {}
            /\ "os.getenv" \notin Fns(p)
            /\ raised[p].what # "API key not found: set env var or pass api_key"
            /\ pc[p] = "raised" => InitCalls(p) # {}

\* ollama with an api_key and an empty environment got its agent
C8_Witness ==
    \E p \in Procs :
        /\ provider[p] = S("ollama")
        /\ args[p].api_key = S("sk-new")
        /\ environ = EnvUnset
        /\ pc[p] = "returned"

\* the credential key of the provider a call resolved to (None: no call past
\* validation, or a provider without one)
KeyOf(p) ==
    IF provider[p] \in ProviderNames
    THEN SUPPORTED_PROVIDERS[provider[p]].env_var
    ELSE None

PastCheck(p) == pc[p] \notin {"idle", "set_api_key", "check_api_key"}

\* C9 as stated, for every api_key string passed, the empty one included: it
\* is written under the provider's env_var and the credential check of the
\* call passes.
C9_AnyApiKeyString ==
    \A p \in Procs :
        (/\ KeyOf(p) # None
         /\ args[p].api_key # None
         /\ pc[p] \notin {"idle", "set_api_key"}) =>
            /\ environ[KeyOf(p)] = args[p].api_key
            /\ raised[p].what # "API key not found: set env var or pass api_key"

\* C9: a non-empty api_key for a provider that requires a credential is
\* written under the provider's env_var, replacing the value there, and the
\* credential check of that call passes; so does the check of every later
\* call for that provider made without api_key.
C9_ApiKeyInstalled ==
    /\ \A v \in installed : Truthy(environ[v])
    /\ \A p \in Procs :
        /\ (/\ KeyOf(p) # None
            /\ Truthy(args[p].api_key)
            /\ pc[p] \notin {"idle", "set_api_key"}) =>
              /\ environ[KeyOf(p)] = args[p].api_key
              /\ KeyOf(p) \in installed
              /\ raised[p].what # "API key not found: set env var or pass api_key"
              /\ pc[p] = "raised" => InitCalls(p) # {}
        /\ (/\ KeyOf(p) # None
            /\ KeyOf(p) \in installed
            /\ ~Truthy(args[p].api_key)
            /\ PastCheck(p)) =>
              /\ raised[p].what # "API key not found: set env var or pass api_key"
              /\ pc[p] = "raised" => InitCalls(p) # {}

\* from an empty environment: a call without api_key passed the check for
\* anthropic on the key an earlier call installed
C9_Witness ==
    \E p \in Procs :
        /\ provider[p] = S("anthropic")
        /\ args[p].api_key = None
        /\ S("ANTHROPIC_API_KEY") \in installed
        /\ environ[S("ANTHROPIC_API_KEY")] = S("sk-new")
        /\ environ[S("OPENAI_API_KEY")] = None
        /\ pc[p] = "create_deep_agent"

\* C10: when the resolved provider requires a credential, no api_key is given
\* and the environment holds no value under its env_var, the call fails with
\* the error that names exactly that env_var and carries the remediation hint,
\* and no agent is returned.
C10_MissingCredential ==
    \A p \in Procs :
        /\ (/\ KeyOf(p) # None
            /\ ~Truthy(args[p].api_key)
            /\ ~Truthy(environ[KeyOf(p)])
            /\ PastCheck(p)) =>
              /\ pc[p] = "raised"
              /\ raised[p] = [type |-> "ValueError",
                              what |-> "API key not found: set env var or pass api_key",
                              provider |-> provider[p], names |-> {KeyOf(p)}]
              /\ InitCalls(p) = {}
              /\ "create_deep_agent" \notin Fns(p)
              /\ agent[p] = NoAgent
        /\ (/\ args[p].model = <<"openai", ":", "gpt-4o">>
            /\ args[p].provider = None
            /\ args[p].api_key = None
            /\ ~Truthy(environ[S("OPENAI_API_KEY")])
            /\ PastCheck(p)) =>
              /\ pc[p] = "raised"
              /\ raised[p].names = {S("OPENAI_API_KEY")}

\* model="openai:gpt-4o" without OPENAI_API_KEY has raised, naming it
C10_Witness ==
    \E p \in Procs :
        /\ args[p].model = <<"openai", ":", "gpt-4o">>
        /\ args[p].provider = None
        /\ args[p].api_key = None
        /\ environ[S("OPENAI_API_KEY")] = None
        /\ pc[p] = "raised"
        /\ raised[p].names = {S("OPENAI_API_KEY")}

-----------------------------------------------------------------------------
\* the i-th collaborator call of p is init_chat_model, made after a passed
\* validation, after every environment write of the call and, for a provider
\* that requires a credential, after a credential check that read the
\* non-empty value the environment holds
InitAfterChecks(p, i) ==
    /\ calls[p][i].b \in ProviderNames
    /\ calls[p][i].b = ResolvedFromArgs(p)
    /\ raised[p].what \notin {"Unsupported provider",
                              "API key not found: set env var or pass api_key"}
    /\ \A j \in EnvWrites(p) : j < i
    /\ LET v == SUPPORTED_PROVIDERS[calls[p][i].b].env_var
       IN  (calls[p][i].b # S("ollama") /\ Truthy(v)) =>
             /\ \E j \in 1..(i - 1) :
                   /\ calls[p][j].fn = "os.getenv"
                   /\ calls[p][j].a = v
                   /\ Truthy(calls[p][j].b)
                   /\ calls[p][j].b = environ[v]
             /\ Truthy(environ[v])

\* the credential key of the provider handed to the i-th call of p
KeyAt(p, i) == SUPPORTED_PROVIDERS[calls[p][i].b].env_var

\* C11 as stated, for every api_key passed, the empty string included:
\* init_chat_model is called only after validation and credential check, after
\* the environment write, and for a provider that requires a credential the
\* env_var then holds a non-empty value equal to the api_key passed.
C11_InitAfterChecksAnyKey ==
    \A p \in Procs : \A i \in 1..Len(calls[p]) :
        calls[p][i].fn = "init_chat_model" =>
            /\ InitAfterChecks(p, i)
            /\ (/\ calls[p][i].b # S("ollama")
                /\ Truthy(KeyAt(p, i))
                /\ args[p].api_key # None) =>
                  environ[KeyAt(p, i)] = args[p].api_key

\* C11: init_chat_model is called only after the provider validation and the
\* credential check of the call have both succeeded, and every write of the
\* api_key to the environment comes before it.  With calls not interleaved,
\* when init_chat_model is called for a provider that requires a credential,
\* the environment holds a non-empty value under its env_var, and that value
\* is the api_key, written by this call, when a non-empty api_key was passed.
C11_InitAfterChecks ==
    \A p \in Procs : \A i \in 1..Len(calls[p]) :
        calls[p][i].fn = "init_chat_model" =>
            /\ InitAfterChecks(p, i)
            /\ (/\ calls[p][i].b # S("ollama")
                /\ Truthy(KeyAt(p, i))
                /\ Truthy(args[p].api_key)) =>
                  /\ environ[KeyAt(p, i)] = args[p].api_key
                  /\ \E j \in EnvWrites(p) :
                        /\ calls[p][j].a = KeyAt(p, i)
                        /\ calls[p][j].b = args[p].api_key

\* openai with api_key "sk-new" over an old value: the write, then the check,
\* then init_chat_model, with OPENAI_API_KEY holding "sk-new"
C11_Witness ==
    \E p \in Procs :
        /\ provider[p] = S("openai")
        /\ args[p].api_key = S("sk-new")
        /\ environ[S("OPENAI_API_KEY")] = S("sk-new")
        /\ Len(calls[p]) = 4
        /\ calls[p][2].fn = "os.environ.__setitem__"
        /\ calls[p][3].fn = "os.getenv"
        /\ calls[p][4].fn = "init_chat_model"

\* C12: a call whose model resolution fails at any step (unsupported
\* provider, missing credential, missing package, any other failure of
\* init_chat_model) ends by raising: create_deep_agent is never called and no
\* agent, whole or half-built, is returned.
C12_FailureRaises ==
    \A p \in Procs :
        /\ raised[p] # NoError =>
              /\ pc[p] = "raised"
              /\ "create_deep_agent" \notin Fns(p)
              /\ agent[p] = NoAgent
        /\ "create_deep_agent" \in Fns(p) =>
              /\ chat_model[p] # NoModel
              /\ InitCalls(p) = {<<chat_model[p].model, chat_model[p].model_provider>>}
              /\ agent[p].model = chat_model[p]
        /\ (Started(p) /\ ResolvedFromArgs(p) \notin ProviderNames) => pc[p] = "raised"
        /\ (/\ PastCheck(p)
            /\ KeyOf(p) # None
            /\ ~Truthy(environ[KeyOf(p)])) => pc[p] = "raised"

\* init_chat_model failed for want of the provider package: the call has
\* raised ImportError after the credential check passed
C12_Witness ==
    \E p \in Procs :
        /\ pc[p] = "raised"
        /\ raised[p].type = "ImportError"
        /\ InitCalls(p) # {}
        /\ agent[p] = NoAgent

-----------------------------------------------------------------------------
Names(tools) == {tools[i].name : i \in 1..Len(tools)}

UniqueNames(tools) ==
    \A i \in 1..Len(tools), j \in 1..Len(tools) :
        tools[i].name = tools[j].name => i = j

\* the call is one of create_agent or create_research_assistant
HasAdditionalTools(p) == "additional_tools" \in DOMAIN args[p]

\* the tool list the arguments ask for: the module's tools, then the caller's
RequestedTools(p) ==
    (IF "enable_subagents" \in DOMAIN args[p] THEN TOOLS ELSE RESEARCH_TOOLS)
        \o args[p].additional_tools.list

\* C13: a tool set in which an additional tool has the name of a base tool or
\* of another additional tool is refused with a duplicate-tool-name error:
\* create_agent and create_research_assistant never hand create_deep_agent a
\* tool list with two entries of one name, and never drop one of them.
C13_DuplicateToolNameFails ==
    \A p \in Procs :
        /\ UniqueNames(agent[p].tools)
        /\ (/\ HasAdditionalTools(p)
            /\ ~UniqueNames(RequestedTools(p))
            /\ InitCalls(p) # {}
            /\ pc[p] \notin {"t_init_chat_model", "r_init_chat_model",
                              "t_create_deep_agent", "r_create_deep_agent"}) =>
              /\ pc[p] = "raised"
              /\ "create_deep_agent" \notin Fns(p)

\* C14: create_agent with enable_subagents=True composes exactly one
\* sub-agent, named "specialist", whose tool set has exactly the members of
\* the parent's assembled tool set (the module's tools and the additional
\* tools); with enable_subagents=False it composes no sub-agent.
C14_SpecialistSubagent ==
    \A p \in Procs :
        ("enable_subagents" \in DOMAIN args[p] /\ pc[p] = "returned") =>
            /\ Range(agent[p].tools) = Range(RequestedTools(p))
            /\ IF args[p].enable_subagents
               THEN /\ Len(agent[p].subagents) = 1
                    /\ agent[p].subagents[1].name = S("specialist")
                    /\ Range(agent[p].subagents[1].tools) = Range(RequestedTools(p))
                    /\ Len(agent[p].subagents[1].tools) = Len(agent[p].tools)
               ELSE agent[p].subagents = <<>>

\* create_agent(additional_tools=[my_tool], enable_subagents=True) returned an
\* agent whose specialist holds the two module tools and my_tool
C14_Witness ==
    \E p \in Procs :
        /\ pc[p] = "returned"
        /\ "enable_subagents" \in DOMAIN args[p]
        /\ args[p].enable_subagents
        /\ args[p].additional_tools = List(<<Tool("my_tool", "caller")>>)
        /\ Len(agent[p].subagents) = 1
        /\ Len(agent[p].subagents[1].tools) = 3

\* the number of init_chat_model calls a call has made
InitCount(p) ==
    Cardinality({i \in 1..Len(calls[p]) : calls[p][i].fn = "init_chat_model"})

\* C15: in each of the three factories init_chat_model is called at most
\* once per create call, and every sub-agent spec composed carries the very
\* model handle of the parent, the one that call returned: no second lookup,
\* credential check or initialization is made for a sub-agent.
C15_OneModelHandle ==
    \A p \in Procs :
        /\ InitCount(p) <= 1
        /\ Cardinality({i \in 1..Len(calls[p]) : calls[p][i].fn = "os.getenv"}) <= 1
        /\ "create_deep_agent" \in Fns(p) =>
              /\ InitCount(p) = 1
              /\ calls[p][Len(calls[p])].fn = "create_deep_agent"
              /\ agent[p].model = chat_model[p]
              /\ <<agent[p].model.model, agent[p].model.model_provider>> \in InitCalls(p)
              /\ \A i \in 1..Len(agent[p].subagents) :
                    agent[p].subagents[i].model = agent[p].model

\* create_research_assistant returned an agent whose deep_researcher carries
\* the handle init_chat_model returned for (gpt-4o, openai)
C15_Witness ==
    \E p \in Procs :
        /\ pc[p] = "returned"
        /\ Len(agent[p].subagents) = 1
        /\ agent[p].subagents[1].name = S("deep_researcher")
        /\ agent[p].subagents[1].model = [model |-> S("gpt-4o"),
                                          model_provider |-> S("openai")]

-----------------------------------------------------------------------------
\* a tool invocation has returned its dict
ToolReturned(p) == pc[p] = "returned" /\ "tool" \in DOMAIN args[p]

\* C16: on every path every tool of STOCK_TOOLS, RESEARCH_TOOLS and TOOLS
\* returns an envelope with a boolean "success" field, and with a payload when
\* success is true, a populated "error" when it is false.
C16_ResultEnvelope ==
    \A p \in Procs :
        ToolReturned(p) =>
            /\ "success" \in DOMAIN result[p]
            /\ result[p].success \in BOOLEAN
            /\ result[p].success =>
                  /\ "error" \notin DOMAIN result[p]
                  /\ DOMAIN result[p] # {"success"}
            /\ ~result[p].success => "error" \in DOMAIN result[p]

\* a tool has been invoked
ToolInvoked(p) == Started(p) /\ "tool" \in DOMAIN args[p]

\* the responses requests.get gave to the invocation
Received(p) == {calls[p][i].b : i \in 1..Len(calls[p])}

\* the faults the tools handle on an error path: the request raised, the
\* status is not 200 (compare_stocks has no such path: it goes on to the next
\* ticker), the body is no JSON or has no result entry, the start price is
\* zero, both sources are empty
FaultMet(p) ==
    \/ \E r \in Received(p) : r.kind = "exception"
    \/ \E r \in Received(p) : r.status # 200 /\ args[p].tool # "compare_stocks"
    \/ \E r \in Received(p) : r.status = 200 /\ r.body.kind = "not_json"
    \/ \E r \in Received(p) :
          /\ r.status = 200
          /\ r.body.kind = "no_result"
          /\ args[p].tool # "search_stock_news"
    \/ /\ args[p].tool = "calculate_price_change"
       /\ \E r \in Received(p) : r.status = 200 /\ r.body.close = <<0, 100>>
    \/ /\ args[p].tool = "compare_sources"
       /\ args[p].source1_text = <<>>
       /\ args[p].source2_text = <<>>

C18_ErrorKeepsInput ==
    \A p \in Procs :
        (ToolReturned(p) /\ "error" \in DOMAIN result[p]) =>
            \A k \in DOMAIN args[p] \ {"tool"} :
                /\ k \in DOMAIN result[p]
                /\ result[p][k] = args[p][k]

-----------------------------------------------------------------------------
\* the call is one of create_stock_analysis_agent
IsCreateCall(p) == Started(p) /\ "api_key" \in DOMAIN args[p]

\* C19: SUPPORTED_PROVIDERS is read-only after module load: no sequence of
\* create_stock_analysis_agent, get_supported_providers and list_providers
\* calls changes it, and nothing a caller does to the mapping returned by
\* get_supported_providers (adding or removing a provider, editing
\* default_model or env_var of a descriptor) changes what later
\* create_stock_analysis_agent calls resolve: the providers accepted, the
\* default model, the credential checked.
C19_RegistryReadOnly ==
    /\ registry = SUPPORTED_PROVIDERS
    /\ \A p \in Procs :
          IsCreateCall(p) =>
              /\ raised[p].what = "Unsupported provider" <=>
                    (pc[p] = "raised" /\ ResolvedFromArgs(p) \notin ProviderNames)
              /\ \A c \in InitCalls(p) :
                    /\ c[2] \in ProviderNames
                    /\ ~Truthy(args[p].model) =>
                          c[1] = SUPPORTED_PROVIDERS[c[2]].default_model
                    /\ (c[2] # S("ollama") /\ Truthy(SUPPORTED_PROVIDERS[c[2]].env_var)) =>
                          \E i \in 1..Len(calls[p]) :
                              /\ calls[p][i].fn = "os.getenv"
                              /\ calls[p][i].a = SUPPORTED_PROVIDERS[c[2]].env_var
                              /\ Truthy(calls[p][i].b)

-----------------------------------------------------------------------------
\* C20: every extra keyword given to create_stock_analysis_agent reaches
\* init_chat_model unchanged, whatever its name, next to the resolved
\* provider, the model and the temperature, and no keyword makes the call
\* fail; the call of the shipped examples, model_provider="anthropic" and a
\* workspace_dir, returns an agent bound to anthropic.
C20_KwargsPassedThrough ==
    \A p \in Procs :
        IsCreateCall(p) =>
            /\ \A i \in 1..Len(calls[p]) :
                  calls[p][i].fn = "init_chat_model" =>
                      /\ calls[p][i].kwargs = args[p].model_kwargs
                      /\ calls[p][i].temperature = args[p].temperature
                      /\ calls[p][i].b = ResolvedFromArgs(p)
            /\ raised[p].type = "RuntimeError" => raised[p].error # "TypeError"
            /\ (/\ args[p].model_kwargs = [model_provider |-> S("anthropic")]
                /\ ~Truthy(args[p].model)
                /\ ~Truthy(args[p].provider)
                /\ pc[p] = "returned") =>
                  agent[p].model.model_provider = S("anthropic")

-----------------------------------------------------------------------------
\* get_supported_providers has just returned to p
GotProviders(p) ==
    /\ pc[p] = "returned"
    /\ "fn" \in DOMAIN args[p]
    /\ args[p].fn = "get_supported_providers"

\* C21: the registry returned by get_supported_providers has at least a dozen
\* entries, among them openai, anthropic, google_genai, groq and ollama; every
\* entry has a non-empty default_model; at least one entry needs no credential
\* and at least one does.
C21_RegistryContents ==
    \A p \in Procs :
        GotProviders(p) =>
            LET names == held[p].aliases IN
            /\ held[p].added = {}
            /\ Cardinality(names) >= 12
            /\ {S("openai"), S("anthropic"), S("google_genai"), S("groq"),
                S("ollama")} \subseteq names
            /\ \A n \in names : Truthy(registry[n].default_model)
            /\ \E n \in names : registry[n].env_var = None
            /\ \E n \in names : Truthy(registry[n].env_var)

\* the registry was returned after a caller had edited a descriptor of an
\* earlier copy
C21_Witness ==
    \E p \in Procs :
        /\ GotProviders(p)
        /\ registry # SUPPORTED_PROVIDERS
        /\ Cardinality(held[p].aliases) = 15

-----------------------------------------------------------------------------
\* C22: compare_stocks returns data for all the stocks it was given: for a
\* list of n tickers and any outcome of the per-ticker fetches the result is
\* an error result or has count = n and one comparison row per requested
\* ticker, in input order; a ticker whose fetch failed is never left out of a
\* result that reports no error.
C22_AllTickersCompared ==
    \A p \in Procs :
        (ToolReturned(p) /\ args[p].tool = "compare_stocks") =>
            LET want == TickerList(args[p].tickers) IN
            \/ "error" \in DOMAIN result[p]
            \/ /\ result[p].count = Len(want)
               /\ Len(result[p].comparison) = Len(want)
               /\ \A i \in 1..Len(want) : result[p].comparison[i].ticker = want[i]

-----------------------------------------------------------------------------
\* C23: summarize_text never produces a summary longer than max_length words:
\* for every text and every integer max_length (0, 1 and odd values included)
\* a text of at most max_length words is returned unchanged, a longer one is
\* summarised by its first max_length // 2 and its last max_length // 2 words,
\* and the reported summary_length is at most max_length.
C23_SummaryWithinMaxLength ==
    \A p \in Procs :
        (ToolReturned(p) /\ args[p].tool = "summarize_text") =>
            LET words == args[p].text
                max_length == args[p].max_length
                half == max_length \div 2
            IN  /\ result[p].success
                /\ Len(words) <= max_length => result[p].summary = words
                /\ Len(words) > max_length =>
                      result[p].summary =
                          SubSeq(words, 1, half) \o <<"...">>
                              \o SubSeq(words, Len(words) - half + 1, Len(words))
                /\ result[p].summary_length <= max_length

-----------------------------------------------------------------------------
\* the call is one of create_agent or create_research_assistant
IsFactoryCall(p) == Started(p) /\ HasAdditionalTools(p)

\* the provider names some registry of the repository knows
KnownProvider(pr) == pr \in DOMAIN TEMPLATE_PROVIDERS \cup ProviderNames

\* C24: create_agent and create_research_assistant reject a provider that is
\* not a known provider with an error that names the valid providers,
\* whether the model is absent, bare or prefixed, and never call
\* init_chat_model with an unregistered provider.
C24_UnknownProviderRejected ==
    \A p \in Procs :
        IsFactoryCall(p) =>
            /\ \A c \in InitCalls(p) : KnownProvider(c[2])
            /\ ~KnownProvider(provider[p]) =>
                  /\ pc[p] = "raised"
                  /\ raised[p].names # {}
                  /\ \A n \in raised[p].names : KnownProvider(n)

-----------------------------------------------------------------------------
(* Two callers of create_stock_analysis_agent whose calls interleave, each   *)
(* with an api_key of its own.                                               *)

NextSlots ==
    \/ \E self \in Procs :
          /\ pc[self] = "idle"
          /\ \E pr \in {S("openai"), S("anthropic"), S("ollama")},
                k \in ApiKeyArgs, w \in WorkspaceArgs :
                Call(self, None, pr, k, w)
    \/ \E self \in Procs : Step(self)

SpecSlots == Init /\ [][NextSlots]_vars

\* the credential slot call p checks: the env_var of its provider, if any
SlotOf(p) ==
    IF provider[p] \in DOMAIN registry THEN registry[provider[p]].env_var ELSE None

\* call q is at its api_key step and this step takes it past it
InstallsKey(q) == pc[q] = "set_api_key" /\ pc'[q] = "check_api_key"

\* call p has validated its provider and not yet read its credential
BeforeCheck(p) == pc[p] \in {"set_api_key", "check_api_key"}

\* C25: every credential-requiring provider has a credential slot of its own
\* (no two registry entries share an env_var), so when two
\* create_stock_analysis_agent calls for different providers interleave, the
\* api_key step of one leaves the slot the other is about to read as it was,
\* and the key an ended check found, or missed, is the value it read there.
C25_OwnCredentialSlot ==
    /\ [](\A a, b \in DOMAIN registry :
            (a # b /\ registry[a].env_var # None) =>
                registry[a].env_var # registry[b].env_var)
    /\ [][\A p, q \in Procs :
            (/\ p # q
             /\ InstallsKey(q)
             /\ BeforeCheck(p)
             /\ provider[p] # provider[q]
             /\ SlotOf(p) # None) =>
                environ'[SlotOf(p)] = environ[SlotOf(p)]]_vars
    /\ [](\A p \in Procs :
            (IsCreateCall(p) /\ PastCheck(p)) =>
                \A i \in 1..Len(calls[p]) :
                    calls[p][i].fn = "os.getenv" =>
                        /\ calls[p][i].a = SlotOf(p)
                        /\ raised[p].what =
                              "API key not found: set env var or pass api_key"
                              <=> ~Truthy(calls[p][i].b))

\* p2 has installed a key for anthropic while p1, a call for openai with no
\* key of its own, waits at its credential check with its slot still unset
C25_Witness ==
    /\ pc["p1"] = "check_api_key"
    /\ provider["p1"] = S("openai")
    /\ provider["p2"] = S("anthropic")
    /\ EnvWrites("p2") # {}
    /\ pc["p2"] \in {"check_api_key", "init_chat_model"}
    /\ environ[S("OPENAI_API_KEY")] = None
    /\ environ[S("ANTHROPIC_API_KEY")] = S("sk-new")

-----------------------------------------------------------------------------
\* C26: in create_agent and create_research_assistant the assembled tool list
\* is the base tools in their original order followed by the additional tools
\* in the order given, and the module-level TOOLS and RESEARCH_TOOLS keep
\* their members and order through any sequence of create calls: the
\* additions of one call never appear in the tool list of a later call.
C26_ToolListAssembled ==
    /\ base_tools.TOOLS = TOOLS
    /\ base_tools.RESEARCH_TOOLS = RESEARCH_TOOLS
    /\ \A p \in Procs :
          (IsFactoryCall(p) /\ pc[p] = "returned") =>
              /\ agent[p].tools = RequestedTools(p)
              /\ \A i \in 1..Len(calls[p]) :
                    calls[p][i].fn = "create_deep_agent" =>
                        calls[p][i].a = RequestedTools(p)

\* create_research_assistant returned with two additional tools behind the
\* five base tools, after an earlier create_agent call
C26_Witness ==
    \E p \in Procs :
        /\ pc[p] = "returned"
        /\ HasAdditionalTools(p)
        /\ "enable_subagents" \notin DOMAIN args[p]
        /\ args[p].additional_tools =
              List(<<Tool("web_search", "caller"), Tool("my_tool", "caller")>>)
        /\ Len(agent[p].tools) = 7
        /\ agent[p].tools[6] = Tool("web_search", "caller")
        /\ agent[p].tools[7] = Tool("my_tool", "caller")
        /\ S("./workspace") \in fs

-----------------------------------------------------------------------------
\* the credential slots other than slot keep their values in this step
OthersKept(slot) == \A v \in DOMAIN environ \ {slot} : environ'[v] = environ[v]

\* C27: create_stock_analysis_agent writes the credential environment at most
\* once per call, only to the env_var of the resolved provider and only after
\* the provider was validated: a call that fails with an unsupported provider
\* leaves every slot as it was even when an api_key is supplied, and a call
\* that installed an api_key and then fails at model initialization leaves
\* the slot holding that api_key.
C27_OneWriteOwnSlot ==
    /\ [](\A p \in Procs :
            IsCreateCall(p) =>
                /\ Cardinality(EnvWrites(p)) <= 1
                /\ \A i \in EnvWrites(p) :
                      /\ provider[p] \in ProviderNames
                      /\ calls[p][i].a = SUPPORTED_PROVIDERS[provider[p]].env_var
                      /\ calls[p][i].b = args[p].api_key
                /\ raised[p].what = "Unsupported provider" => EnvWrites(p) = {}
                /\ (/\ EnvWrites(p) # {}
                    /\ pc[p] = "raised"
                    /\ InitCalls(p) # {}) =>
                      environ[SUPPORTED_PROVIDERS[provider[p]].env_var]
                          = args[p].api_key)
    /\ [][\A p \in Procs :
            /\ (pc[p] = "idle" /\ pc'[p] = "raised") => environ' = environ
            /\ (pc[p] = "set_api_key" /\ pc'[p] # pc[p]) =>
                  OthersKept(SlotOf(p))
            /\ (pc[p] \notin {"idle", "set_api_key"} /\ pc'[p] # pc[p]) =>
                  environ' = environ]_vars

\* a call for openai installed its api_key over the value the environment
\* held, then init_chat_model failed: the slot holds the api_key
C27_Witness ==
    \E p \in Procs :
        /\ pc[p] = "raised"
        /\ raised[p].what = "Failed to initialize model"
        /\ provider[p] = S("openai")
        /\ args[p].api_key = S("sk-new")
        /\ EnvWrites(p) # {}
        /\ environ[S("OPENAI_API_KEY")] = S("sk-new")
        /\ environ[S("ANTHROPIC_API_KEY")] # S("sk-new")

-----------------------------------------------------------------------------
\* C28: create_stock_analysis_agent creates the workspace directory as its
\* first step, before parsing, provider validation and the credential check,
\* so the directory exists after every call, also after one that fails with
\* an unsupported provider, a missing API key or a model initialization
\* error.
C28_WorkspaceFirst ==
    /\ [](\A p \in Procs :
            IsCreateCall(p) =>
                /\ Len(calls[p]) >= 1
                /\ calls[p][1].fn = "os.makedirs"
                /\ calls[p][1].a = args[p].workspace_dir
                /\ \A i \in 2..Len(calls[p]) : calls[p][i].fn # "os.makedirs"
                /\ args[p].workspace_dir \in fs)
    /\ [][fs \subseteq fs']_vars

\* a call given an api_key failed with an unsupported provider: no key was
\* installed, and the workspace directory exists
C28_Witness ==
    \E p \in Procs :
        /\ pc[p] = "raised"
        /\ raised[p].what = "Unsupported provider"
        /\ args[p].api_key = S("sk-new")
        /\ installed = {}
        /\ fs = {args[p].workspace_dir}

-----------------------------------------------------------------------------
(* conduct_research of agents/research_assistant, called with an agent       *)
(* already made                                                              *)

\* str.replace(' ', '_') on the atoms used as topic text
Underscore(a) ==
    CASE a = "AI safety" -> "AI_safety"
      [] OTHER -> a

\* research_assistant agent.py 154-158: the dict depth_prompts
DepthPrompts(topic) ==
    (S("quick") :> <<"Provide a quick overview of ", topic,
                     " with 2-3 key sources.">>)
 @@ (S("standard") :> <<"Research ", topic,
                        ". Gather information from 5-7 sources and provide a structured summary.">>)
 @@ (S("comprehensive") :> <<"Conduct comprehensive research on ", topic,
                             ". Gather information from multiple sources, analyze findings, identify trends, and create a detailed report.">>)

\* research_assistant agent.py 160-163: depth_prompts[depth] += ... reads
\* depth_prompts[depth] first; then .get(depth, depth_prompts["standard"])
ResearchQuery(topic, depth, save_report) ==
    LET depth_prompts == DepthPrompts(topic)
        suffix == <<" Save your findings to reports/", Underscore(topic),
                    "_research.md">>
    IN  IF save_report /\ depth \notin DOMAIN depth_prompts
        THEN Raises("KeyError")
        ELSE LET saved == IF save_report
                          THEN [depth_prompts EXCEPT ![depth] = @ \o suffix]
                          ELSE depth_prompts
             IN  Returns(IF depth \in DOMAIN saved THEN saved[depth]
                         ELSE saved[S("standard")])

\* research_assistant agent.py 151-186; messages are the contents of
\* result.get("messages", [])
ConductResearch(self, topic, depth, save_report, messages) ==
    /\ pc[self] = "idle"
    /\ args' = [args EXCEPT ![self] =
                  [fn |-> "conduct_research", topic |-> topic, depth |-> depth,
                   save_report |-> save_report]]
    /\ LET query == ResearchQuery(topic, depth, save_report)
       IN  IF query.raised
           THEN /\ calls' = [calls EXCEPT ![self] = <<>>]
                /\ raised' = [raised EXCEPT ![self] =
                       [type |-> query.exc, what |-> "depth_prompts[depth]",
                        provider |-> None, names |-> {}]]
                /\ pc' = [pc EXCEPT ![self] = "raised"]
                /\ result' = result
           ELSE /\ calls' = [calls EXCEPT ![self] =
                       <<Ext("agent.invoke", query.value, messages)>>]
                /\ result' = [result EXCEPT ![self] =
                       [response |-> IF messages # <<>>
                                     THEN messages[Len(messages)]
                                     ELSE S("No findings generated")]]
                /\ pc' = [pc EXCEPT ![self] = "returned"]
                /\ raised' = raised
    /\ UNCHANGED <<environ, fs, installed, provider, model, provider_from_model,
                   model_name, chat_model, agent, registry, held, base_tools>>

\* one caller of conduct_research
NextResearch ==
    \/ /\ pc["p1"] = "idle"
       /\ \E topic \in {"AI safety", "fusion"},
             depth \in {S("quick"), S("standard"), S("comprehensive"),
                        S("deep"), <<>>},
             save_report \in BOOLEAN,
             messages \in {<<>>, <<S("question"), S("findings")>>} :
             ConductResearch("p1", topic, depth, save_report, messages)
    \/ Return("p1")

SpecResearch == Init /\ [][NextResearch]_vars

\* conduct_research was called by p
ResearchCalled(p) ==
    /\ Started(p)
    /\ "fn" \in DOMAIN args[p]
    /\ args[p].fn = "conduct_research"

\* C29: conduct_research called with a depth outside quick, standard and
\* comprehensive falls back to the standard prompt and invokes the agent,
\* with save_report true as with save_report false; the unrecognized depth
\* never makes it fail.
C29_DepthFallback ==
    \A p \in Procs :
        (/\ ResearchCalled(p)
         /\ args[p].depth \notin {S("quick"), S("standard"), S("comprehensive")}) =>
            /\ pc[p] = "returned"
            /\ raised[p] = NoError
            /\ Len(calls[p]) = 1
            /\ calls[p][1].fn = "agent.invoke"
            /\ SubSeq(calls[p][1].a, 1, 3) = DepthPrompts(args[p].topic)[S("standard")]

-----------------------------------------------------------------------------
\* init_chat_model was called by p and p has raised
InitFailed(p) == IsCreateCall(p) /\ InitCalls(p) # {} /\ pc[p] = "raised"

\* C30: a failure of init_chat_model inside create_stock_analysis_agent is
\* reclassified by kind and nothing else leaves the call: an ImportError
\* becomes an ImportError that names the provider's package to install,
\* every other exception a RuntimeError that names the provider, the model
\* and the provider's example models; create_deep_agent is not called.
C30_InitFailureReclassified ==
    \A p \in Procs :
        /\ InitFailed(p) =>
              LET provider_info == SUPPORTED_PROVIDERS[provider[p]] IN
              /\ "create_deep_agent" \notin Fns(p)
              /\ agent[p] = NoAgent
              /\ raised[p].provider = provider[p]
              /\ raised[p].error \in {"ImportError", "ModuleNotFoundError"} =>
                    /\ raised[p].type = "ImportError"
                    /\ raised[p].names = {provider_info.package}
              /\ raised[p].error \notin {"ImportError", "ModuleNotFoundError"} =>
                    /\ raised[p].type = "RuntimeError"
                    /\ raised[p].names = {model[p]} \cup Range(provider_info.examples)
        /\ (IsCreateCall(p) /\ "create_deep_agent" \in Fns(p)) =>
              /\ raised[p] = NoError
              /\ chat_model[p] # NoModel

\* a keyword collision made init_chat_model raise TypeError: the call has
\* raised RuntimeError naming openai, gpt-4o and the examples of openai
C30_Witness ==
    \E p \in Procs :
        /\ InitFailed(p)
        /\ raised[p].type = "RuntimeError"
        /\ raised[p].error = "TypeError"
        /\ raised[p].provider = S("openai")
        /\ S("gpt-4o") \in raised[p].names
        /\ S("o3-mini") \in raised[p].names

=============================================================================
